---- MODULE Spec2Model ----
(***************************************************************************)
(* Model of the agentic connector builder web application: the task list,  *)
(* the agent session (SessionDeps), the tools the agent calls on it, and   *)
(* the turn loop that merges the session back into the UI state.           *)
(*                                                                         *)
(* Text is modelled as a sequence of one-character strings, so that        *)
(* str.splitlines, str.split and str.join are computed and not assumed.    *)
(* An Optional[int] argument is a sequence of length 0 (None) or 1.        *)
(***************************************************************************)
EXTENDS Integers, Sequences, FiniteSets, TLC

VARIABLES
    yaml_content,     \* SessionDeps.yaml_content of the running turn
    form,             \* SessionDeps metadata fields (connector_name, ...)
    task_list_json,   \* SessionDeps.task_list_json: the flat TaskList, serialized
    pc,               \* position of the agent / of the turn loop
    call,             \* the tool call the agent made last: arguments and result
    edited,           \* TRUE once a tool call of this turn changed yaml_content
    turn_start,       \* the manifest text the session of this turn was built with
    edits,            \* the manifest edits the agent made in this turn, in order
    impl,             \* which TaskList the program runs with: "flat" or "partitioned"
    task_list,        \* ChatAgentState.task_list: the partitioned TaskList, or None
    origin,           \* per task, in list order: the category and stream it was created with
    nops,             \* the number of operations the agent made so far
    builder,          \* BuilderState: the durable manifest text and form fields
    turn,             \* position of the turn: "idle", "sent", "started", "running",
                      \* "output", "finishing", "merged" or "failed"
    ui_changed,       \* the durable fields the UI wrote while the turn was running
    tool_changed,     \* the session fields a tool call of the turn wrote
    ui_edits,         \* the number of UI edits made so far
    deps_task_list,   \* session_deps.task_list of the running turn
    turns,            \* the number of turns started so far
    chat_messages,    \* ChatAgentState.chat_messages
    current_streaming_message,  \* ChatAgentState.current_streaming_message
    agent_running,    \* ChatAgentState.agent_running
    agent_paused,     \* ChatAgentState.agent_paused
    environ_key,      \* os.environ.get("OPENAI_API_KEY"): None when absent
    openai_api_key_input,       \* UIState.openai_api_key_input
    effective_api_key,          \* local of run_agent_workflow
    original_api_key,           \* local of run_agent_workflow
    env_before,       \* the OPENAI_API_KEY of the process when the last turn started
    stream,           \* the texts the agent's stream yields in a turn, in order
    consumed,         \* how many of them have been taken from the stream
    pause_seen,       \* how many had been taken when the loop saw the pause flag
    raised,           \* whether an exception was raised in the last turn
    agents,           \* the agents created so far: the state of each one's context
    cached_agent,     \* ChatAgentState._cached_agent: the index of an agent, or None
    cached_api_key,   \* ChatAgentState._cached_api_key
    agent_started,    \* ChatAgentState._agent_started
    restored,         \* TRUE from __setstate__ until _ensure_agent_started is called
    sessions          \* per session of the process: the position and the keys of its turn

----------------------------------------------------------------------------
(* Bounds of the model *)

MaxManifestLen == 3
MaxTextLen == 2
MaxLine == 4
ComposeLen == 2
ComposeTextLen == 1
ComposeLine == 2
MaxOps == 2
MaxUiEdits == 2
MaxTurnLen == 8
MaxTurns == 2
MaxRequired == 2
MaxTools == 2

----------------------------------------------------------------------------
(* Text helpers: Python's str and list operations *)

NL == "\n"
CR == "\r"
Chars == {"a", NL, CR}

StringsUpTo(n) == UNION {[1..k -> Chars] : k \in 0..n}

Min(a, b) == IF a < b THEN a ELSE b
Max(a, b) == IF a > b THEN a ELSE b

\* Python s[i:j] for 0 <= i, 0 <= j
PySlice(s, i, j) == SubSeq(s, i + 1, Min(j, Len(s)))

\* Python s[i:]
PyFrom(s, i) == SubSeq(s, i + 1, Len(s))

RECURSIVE splitlines_from(_, _, _, _)
splitlines_from(s, i, cur, acc) ==
    IF i > Len(s)
    THEN IF cur # <<>> THEN Append(acc, cur) ELSE acc
    ELSE IF s[i] = NL
    THEN splitlines_from(s, i + 1, <<>>, Append(acc, cur))
    ELSE IF s[i] = CR
    THEN IF i + 1 <= Len(s) /\ s[i + 1] = NL
         THEN splitlines_from(s, i + 2, <<>>, Append(acc, cur))
         ELSE splitlines_from(s, i + 1, <<>>, Append(acc, cur))
    ELSE splitlines_from(s, i + 1, Append(cur, s[i]), acc)

\* str.splitlines(keepends=False)
splitlines(s) == splitlines_from(s, 1, <<>>, <<>>)

RECURSIVE split_from(_, _, _, _)
split_from(s, i, cur, acc) ==
    IF i > Len(s)
    THEN Append(acc, cur)
    ELSE IF s[i] = NL
    THEN split_from(s, i + 1, <<>>, Append(acc, cur))
    ELSE split_from(s, i + 1, Append(cur, s[i]), acc)

\* str.split("\n")
split_nl(s) == split_from(s, 1, <<>>, <<>>)

RECURSIVE join_from(_, _)
join_from(lines, i) ==
    IF i > Len(lines) THEN <<>>
    ELSE IF i = Len(lines) THEN lines[i]
    ELSE lines[i] \o <<NL>> \o join_from(lines, i + 1)

\* "\n".join(lines)
join(lines) == join_from(lines, 1)

DigitChars == <<"0", "1", "2", "3", "4", "5", "6", "7", "8", "9">>

RECURSIVE nat_str(_)
nat_str(n) ==
    IF n < 10 THEN <<DigitChars[n + 1]>>
    ELSE nat_str(n \div 10) \o <<DigitChars[(n % 10) + 1]>>

\* str(n)
int_str(n) == IF n < 0 THEN <<"-">> \o nat_str(0 - n) ELSE nat_str(n)

RECURSIVE pad_left(_, _)
pad_left(s, width) == IF Len(s) >= width THEN s ELSE pad_left(<<" ">> \o s, width)

FIELD_WIDTH == 4

\* f"{n:4d} | {line}"
numbered_line(n, line) == pad_left(int_str(n), FIELD_WIDTH) \o <<" ", "|", " ">> \o line

\* An Optional value
None == <<>>
Some(x) == <<x>>
IsNone(o) == o = <<>>
Val(o) == o[1]

\* the text of a message; a literal fragment of a message is one element
ErrorPrefix == "Error:"
IsError(r) == Len(r) > 0 /\ r[1] = ErrorPrefix

----------------------------------------------------------------------------
(* The manifest line tools of chat_agent.py. Each returns                  *)
(* [result |-> the string returned, yaml |-> ctx.deps.yaml_content after]  *)

\* a tool that reads the text the turn started with, not the session's
deps_yaml_content_stale == turn_start

\* the read of ctx.deps.yaml_content by a tool
deps_yaml_content == yaml_content

\* a range check that lets a start one past the last line through
start_past_the_end(start_line, n) == start_line < 1 \/ start_line > n + 1

\* start_line < 1 or start_line > len(lines)
start_out_of_range(start_line, n) == start_line < 1 \/ start_line > n

\* a label that counts from 1 whatever the first line asked for
line_label_from_one(i, start_num) == i + 1

\* i + start_num, for the i-th line (from 0) of the lines returned
line_label(i, start_num) == i + start_num

\* the string get_manifest_text returns
manifest_text(content, with_line_numbers, start_line, end_line) ==
    IF content = <<>>
    THEN <<ErrorPrefix, " No YAML content available in session">>
    ELSE
    LET all_lines == splitlines(content)
        start_bad == ~IsNone(start_line)
                     /\ start_out_of_range(Val(start_line), Len(all_lines))
        lines1 == IF IsNone(start_line) \/ start_bad THEN all_lines
                  ELSE PyFrom(all_lines, Val(start_line) - 1)
        effective_start == IF ~IsNone(start_line) THEN Val(start_line) ELSE 1
        total_lines == Len(splitlines(content))
        offset == IF ~IsNone(start_line) /\ Val(start_line) # 0
                  THEN Val(start_line) - 1 ELSE 0
        lines_to_keep == Val(end_line) - effective_start + 1
        start_num == IF ~IsNone(start_line) THEN Val(start_line) ELSE 1
    IN  IF start_bad
        THEN <<ErrorPrefix, " start_line ">> \o int_str(Val(start_line))
             \o <<" is out of range (content has ">>
             \o int_str(Len(all_lines)) \o <<" lines)">>
        ELSE IF ~IsNone(end_line) /\ Val(end_line) < effective_start
        THEN <<ErrorPrefix, " end_line ">> \o int_str(Val(end_line))
             \o <<" is before start_line ">> \o int_str(effective_start)
        ELSE IF ~IsNone(end_line) /\ Val(end_line) > Len(lines1) + offset
        THEN <<ErrorPrefix, " end_line ">> \o int_str(Val(end_line))
             \o <<" is out of range (content has ">>
             \o int_str(total_lines) \o <<" lines)">>
        ELSE
        LET lines == IF IsNone(end_line) THEN lines1
                     ELSE PySlice(lines1, 0, lines_to_keep)
        IN  IF with_line_numbers
            THEN join([i \in 1..Len(lines) |->
                          numbered_line(line_label(i - 1, start_num), lines[i])])
            ELSE join(lines)

\* a read that writes the text back, normalised to its lines
get_manifest_text_rewrites(content, with_line_numbers, start_line, end_line) ==
    [result |-> manifest_text(content, with_line_numbers, start_line, end_line),
     yaml |-> join(splitlines(content))]

\* the tool assigns nothing to ctx.deps
get_manifest_text(content, with_line_numbers, start_line, end_line) ==
    [result |-> manifest_text(content, with_line_numbers, start_line, end_line),
     yaml |-> content]

\* an insert position that takes line_number for a 0-based index
insert_pos_off_by_one(line_number, file_lines) == Min(line_number, Len(file_lines))

insert_pos(line_number, file_lines) == Min(line_number - 1, Len(file_lines))

\* a line tool that edits an empty manifest as any other
content_never_missing(content) == FALSE

\* `not ctx.deps.yaml_content` in the line tools that edit
no_content(content) == content = <<>>

insert_manifest_lines(content, line_number, lines) ==
    IF no_content(content)
    THEN [result |-> <<ErrorPrefix, " No YAML content available in session">>,
          yaml |-> content]
    ELSE
    LET file_lines == splitlines(content)
        new_lines == splitlines(lines)
        pos == insert_pos(line_number, file_lines)
        result_lines == PySlice(file_lines, 0, pos) \o new_lines \o PyFrom(file_lines, pos)
    IN  IF line_number < 1
        THEN [result |-> <<ErrorPrefix, " line_number must be >= 1, got ">>
                         \o int_str(line_number),
              yaml |-> content]
        ELSE [result |-> <<"Successfully inserted ">> \o int_str(Len(new_lines))
                         \o <<" line(s) at line ">> \o int_str(line_number)
                         \o <<". The manifest has been updated and changes are visible in the UI.">>,
              yaml |-> join(result_lines)]

\* no check of the end of the range
end_unchecked(end_line, n) == FALSE

\* end_line > len(file_lines)
end_out_of_range(end_line, n) == end_line > n

\* a tail that keeps the last replaced line
replace_tail_keeps_last(file_lines, end_line) == PyFrom(file_lines, end_line - 1)

\* file_lines[end_line:]
replace_tail(file_lines, end_line) == PyFrom(file_lines, end_line)

replace_manifest_lines(content, start_line, end_line, new_lines) ==
    IF no_content(content)
    THEN [result |-> <<ErrorPrefix, " No YAML content available in session">>,
          yaml |-> content]
    ELSE
    LET file_lines == splitlines(content)
        replacement_lines == splitlines(new_lines)
        num_replaced == end_line - start_line + 1
        result_lines == PySlice(file_lines, 0, start_line - 1) \o replacement_lines
                        \o replace_tail(file_lines, end_line)
    IN  IF start_out_of_range(start_line, Len(file_lines))
        THEN [result |-> <<ErrorPrefix, " start_line ">> \o int_str(start_line)
                         \o <<" is out of range (content has ">>
                         \o int_str(Len(file_lines)) \o <<" lines)">>,
              yaml |-> content]
        ELSE IF end_line < start_line
        THEN [result |-> <<ErrorPrefix, " end_line ">> \o int_str(end_line)
                         \o <<" is before start_line ">> \o int_str(start_line),
              yaml |-> content]
        ELSE IF end_out_of_range(end_line, Len(file_lines))
        THEN [result |-> <<ErrorPrefix, " end_line ">> \o int_str(end_line)
                         \o <<" is out of range (content has ">>
                         \o int_str(Len(file_lines)) \o <<" lines)">>,
              yaml |-> content]
        ELSE [result |-> <<"Successfully replaced ">> \o int_str(num_replaced)
                         \o <<" line(s) (lines ">> \o int_str(start_line) \o <<"-">>
                         \o int_str(end_line) \o <<") with ">>
                         \o int_str(Len(replacement_lines))
                         \o <<" new line(s). The manifest has been updated and changes are visible in the UI.">>,
              yaml |-> join(result_lines)]

----------------------------------------------------------------------------
(* Injection of the manifest argument into calls of the external tools *)

MANIFEST_TOOLS == {"execute_stream_test_read", "validate_manifest",
                   "execute_record_counts_smoke_test",
                   "execute_dynamic_manifest_resolution_test"}

\* bool(ctx.deps): a SessionDeps instance defines neither __bool__ nor __len__
deps_truthy == TRUE

\* a test that takes an empty manifest argument for a supplied one
manifest_absent_only(tool_args) == "manifest" \notin DOMAIN tool_args

\* not tool_args.get("manifest")
manifest_missing(tool_args) ==
    "manifest" \notin DOMAIN tool_args \/ tool_args["manifest"] = <<>>

\* {**tool_args, "manifest": content}
with_manifest(tool_args, content) ==
    [k \in (DOMAIN tool_args) \cup {"manifest"} |->
        IF k = "manifest" THEN content ELSE tool_args[k]]

\* the (name, tool_args) handed to call_tool
process_tool_call(name, tool_args, content) ==
    IF name \in MANIFEST_TOOLS /\ deps_truthy /\ manifest_missing(tool_args)
    THEN [name |-> name, tool_args |-> with_manifest(tool_args, content)]
    ELSE [name |-> name, tool_args |-> tool_args]

----------------------------------------------------------------------------
(* One turn of the agent calling tools on the session *)

FormFields == {"source_api_name", "connector_name", "documentation_urls",
               "functional_requirements", "test_list"}

EmptyForm == [f \in FormFields |-> ""]

NoCall == [tool |-> "none"]

OptLines == {None} \cup {Some(n) : n \in 0..MaxLine}

McpToolNames == MANIFEST_TOOLS \cup {"run_connector_readiness_test_report"}

McpArgKeys == {"manifest", "config"}

\* the argument dicts the agent may pass: each key absent, empty or "a"
McpToolArgs == UNION {[K -> {<<>>, <<"a">>}] : K \in SUBSET McpArgKeys}

vars == <<yaml_content, form, task_list_json, pc, call, edited,
          turn_start, edits, impl, task_list, origin, nops,
          builder, turn, ui_changed, tool_changed, ui_edits,
          deps_task_list, turns, chat_messages, current_streaming_message,
          agent_running, agent_paused, environ_key, openai_api_key_input,
          effective_api_key, original_api_key, env_before, stream, consumed,
          pause_seen, raised, agents, cached_agent, cached_api_key, agent_started,
          restored, sessions>>

\* the manifest text of a new BuilderState: two lines of comment
DefaultYaml == <<"a", NL, "a", NL>>

DurableFields == {"yaml_content"} \cup FormFields

DefaultBuilder == [f \in DurableFields |-> IF f = "yaml_content" THEN DefaultYaml ELSE ""]

\* the chat state and the builder state of a new client, no turn running
ChatVars == <<chat_messages, current_streaming_message, agent_running, agent_paused>>

KeyVars == <<environ_key, openai_api_key_input, effective_api_key, original_api_key,
             env_before>>

StreamVars == <<stream, consumed, pause_seen>>

AgentVars == <<agents, cached_agent, cached_api_key, agent_started, restored>>

TurnVars == <<builder, turn, ui_changed, tool_changed, ui_edits, deps_task_list, turns,
              raised, ChatVars, KeyVars, StreamVars, AgentVars, sessions>>

\* the first message of a new chat
Welcome == [role |-> "assistant", content |-> "Welcome!"]

\* ChatAgentState as constructed, with no turn started
ChatAtRest ==
    /\ chat_messages = <<Welcome>>
    /\ current_streaming_message = ""
    /\ agent_running = FALSE
    /\ agent_paused = FALSE
    /\ turn = "idle"
    /\ turns = 0
    /\ deps_task_list = None
    /\ effective_api_key = ""
    /\ original_api_key = None
    /\ consumed = 0
    /\ pause_seen = None
    /\ raised = FALSE
    /\ ui_changed = {}
    /\ tool_changed = {}
    /\ ui_edits = 0
    /\ agents = <<>>
    /\ cached_agent = None
    /\ cached_api_key = None
    /\ agent_started = FALSE
    /\ restored = FALSE
    /\ sessions = <<>>

NoTurn ==
    /\ builder = DefaultBuilder
    /\ ChatAtRest
    /\ environ_key = None
    /\ openai_api_key_input = ""
    /\ env_before = None
    /\ stream = <<>>

\* what the tools on the manifest never touch
NotManifestVars == <<turn_start, edits, impl, task_list, origin, nops, TurnVars>>

InitManifest ==
    /\ yaml_content \in StringsUpTo(MaxManifestLen)
    /\ form = EmptyForm
    /\ task_list_json = <<>>
    /\ pc = "idle"
    /\ call = NoCall
    /\ edited = FALSE
    /\ turn_start = <<>>
    /\ edits = <<>>
    /\ impl = "flat"
    /\ task_list = None
    /\ origin = <<>>
    /\ nops = 0
    /\ NoTurn

GetManifestText ==
    /\ pc = "idle"
    /\ \E wl \in BOOLEAN, sl \in OptLines, el \in OptLines :
         LET r == get_manifest_text(deps_yaml_content, wl, sl, el)
         IN  /\ yaml_content' = r.yaml
             /\ call' = [tool |-> "get_manifest_text", with_line_numbers |-> wl,
                         start_line |-> sl, end_line |-> el,
                         before |-> yaml_content, result |-> r.result, again |-> None]
             /\ edited' = (edited \/ r.yaml # yaml_content)
    /\ pc' = "called"
    /\ UNCHANGED <<form, task_list_json>>
    /\ UNCHANGED NotManifestVars

\* the agent repeats the read it has just made, with the same arguments
RepeatGetManifestText ==
    /\ pc = "called"
    /\ call.tool = "get_manifest_text"
    /\ IsNone(call.again)
    /\ LET r == get_manifest_text(deps_yaml_content, call.with_line_numbers,
                                  call.start_line, call.end_line)
       IN  /\ yaml_content' = r.yaml
           /\ call' = [call EXCEPT !.again = Some(r.result)]
           /\ edited' = (edited \/ r.yaml # yaml_content)
    /\ UNCHANGED <<form, task_list_json, pc>>
    /\ UNCHANGED NotManifestVars

InsertManifestLines ==
    /\ pc = "idle"
    /\ \E n \in 0..MaxLine, text \in StringsUpTo(MaxTextLen) :
         LET r == insert_manifest_lines(deps_yaml_content, n, text)
         IN  /\ Len(r.yaml) <= MaxManifestLen
             /\ yaml_content' = r.yaml
             /\ call' = [tool |-> "insert_manifest_lines", line_number |-> n,
                         lines |-> text, before |-> yaml_content, result |-> r.result]
             /\ edited' = (edited \/ r.yaml # yaml_content)
    /\ pc' = "called"
    /\ UNCHANGED <<form, task_list_json>>
    /\ UNCHANGED NotManifestVars

ReplaceManifestLines ==
    /\ pc = "idle"
    /\ \E s \in 0..MaxLine, e \in 0..MaxLine, text \in StringsUpTo(MaxTextLen) :
         LET r == replace_manifest_lines(deps_yaml_content, s, e, text)
         IN  /\ Len(r.yaml) <= MaxManifestLen
             /\ yaml_content' = r.yaml
             /\ call' = [tool |-> "replace_manifest_lines", start_line |-> s,
                         end_line |-> e, new_lines |-> text,
                         before |-> yaml_content, result |-> r.result]
             /\ edited' = (edited \/ r.yaml # yaml_content)
    /\ pc' = "called"
    /\ UNCHANGED <<form, task_list_json>>
    /\ UNCHANGED NotManifestVars

McpToolCall ==
    /\ pc = "idle"
    /\ \E name \in McpToolNames, tool_args \in McpToolArgs :
         LET sent == process_tool_call(name, tool_args, deps_yaml_content)
         IN  call' = [tool |-> "mcp", name |-> name, tool_args |-> tool_args,
                      before |-> yaml_content, forwarded |-> sent]
    /\ pc' = "called"
    /\ UNCHANGED <<yaml_content, form, task_list_json, edited>>
    /\ UNCHANGED NotManifestVars

\* the tool's result goes back to the agent, which may call the next tool
ToolReturn ==
    /\ pc = "called"
    /\ pc' = "idle"
    /\ call' = NoCall
    /\ UNCHANGED <<yaml_content, form, task_list_json, edited>>
    /\ UNCHANGED NotManifestVars

NextManifest ==
    \/ GetManifestText
    \/ RepeatGetManifestText
    \/ InsertManifestLines
    \/ ReplaceManifestLines
    \/ McpToolCall
    \/ ToolReturn

SpecManifest == InitManifest /\ [][NextManifest]_vars

----------------------------------------------------------------------------
(* Two successive manifest edits in one turn, and a read after them *)

ComposeChars == {"a", NL}

ComposeStrings(n) == UNION {[1..k -> ComposeChars] : k \in 0..n}

ComposeEdits ==
    {[tool |-> "insert_manifest_lines", line_number |-> n, lines |-> t] :
        n \in 0..ComposeLine, t \in ComposeStrings(ComposeTextLen)}
    \cup
    {[tool |-> "replace_manifest_lines", start_line |-> s, end_line |-> e, new_lines |-> t] :
        s \in 0..ComposeLine, e \in 0..ComposeLine, t \in ComposeStrings(ComposeTextLen)}

\* the call of the tool the agent names, on the text the tool reads
apply_edit(content, ed) ==
    IF ed.tool = "insert_manifest_lines"
    THEN insert_manifest_lines(content, ed.line_number, ed.lines)
    ELSE replace_manifest_lines(content, ed.start_line, ed.end_line, ed.new_lines)

\* what the edits of a turn never touch
NotComposeVars == <<form, task_list_json, turn_start, impl, task_list, origin, nops, TurnVars>>

InitCompose ==
    /\ yaml_content \in ComposeStrings(ComposeLen)
    /\ turn_start = yaml_content
    /\ edits = <<>>
    /\ form = EmptyForm
    /\ task_list_json = <<>>
    /\ pc = "idle"
    /\ call = NoCall
    /\ edited = FALSE
    /\ impl = "flat"
    /\ task_list = None
    /\ origin = <<>>
    /\ nops = 0
    /\ NoTurn

FirstEdit ==
    /\ pc = "idle"
    /\ edits = <<>>
    /\ \E ed \in ComposeEdits :
         LET r == apply_edit(deps_yaml_content, ed)
         IN  /\ yaml_content' = r.yaml
             /\ edits' = <<ed>>
             /\ edited' = (edited \/ r.yaml # yaml_content)
    /\ UNCHANGED <<pc, call>>
    /\ UNCHANGED NotComposeVars

SecondEdit ==
    /\ pc = "idle"
    /\ Len(edits) = 1
    /\ \E ed \in ComposeEdits :
         LET r == apply_edit(deps_yaml_content, ed)
         IN  /\ yaml_content' = r.yaml
             /\ edits' = Append(edits, ed)
             /\ edited' = (edited \/ r.yaml # yaml_content)
    /\ UNCHANGED <<pc, call>>
    /\ UNCHANGED NotComposeVars

ReadAfterEdits ==
    /\ pc = "idle"
    /\ Len(edits) = 2
    /\ LET r == get_manifest_text(deps_yaml_content, TRUE, None, None)
       IN  /\ yaml_content' = r.yaml
           /\ call' = [tool |-> "get_manifest_text", with_line_numbers |-> TRUE,
                       start_line |-> None, end_line |-> None,
                       before |-> yaml_content, result |-> r.result, again |-> None]
    /\ pc' = "called"
    /\ UNCHANGED <<edits, edited>>
    /\ UNCHANGED NotComposeVars

NextCompose ==
    \/ FirstEdit
    \/ SecondEdit
    \/ ReadAfterEdits

SpecCompose == InitCompose /\ [][NextCompose]_vars

----------------------------------------------------------------------------
(* Claims about the manifest line tools, checked under SpecManifest *)

IsCall(tool) == pc = "called" /\ call.tool = tool

\* a replace call whose range satisfies 1 <= s <= e <= N
ReplaceInRange ==
    /\ IsCall("replace_manifest_lines")
    /\ call.before # <<>>
    /\ 1 <= call.start_line
    /\ call.start_line <= call.end_line
    /\ call.end_line <= Len(splitlines(call.before))

\* lines[0:s-1] + middle + lines[e:]
Spliced(lines, s, e, middle) ==
    SubSeq(lines, 1, s - 1) \o middle \o SubSeq(lines, e + 1, Len(lines))

\* the number of lines a read of the list of lines L, joined, shows
LinesReadBack(L) ==
    IF L # <<>> /\ L[Len(L)] = <<>> THEN Len(L) - 1 ELSE Len(L)

ReadStep ==
    \/ pc = "idle" /\ pc' = "called" /\ call'.tool = "get_manifest_text"
    \/ pc = "called" /\ pc' = "called" /\ call.tool = "get_manifest_text"
       /\ IsNone(call.again) /\ ~IsNone(call'.again)

\* C5: get_manifest_text, whatever its arguments and whether it succeeds or
\* returns an error, leaves the manifest text and every other session field
\* unchanged, and a second call with the same arguments returns the same string.
C5_ReadOnly ==
    [][ReadStep =>
        /\ yaml_content' = yaml_content
        /\ form' = form
        /\ task_list_json' = task_list_json
        /\ (~IsNone(call'.again) => Val(call'.again) = call'.result)]_vars

\* a read of a line range repeated after it succeeded, and one after it failed
C5_Witness ==
    /\ IsCall("get_manifest_text")
    /\ ~IsNone(call.again)
    /\ ~IsNone(call.start_line)
    /\ ~IsError(call.result)
    /\ call.with_line_numbers
    /\ yaml_content # join(splitlines(yaml_content))

\* C6: for a non-empty manifest of N lines and n >= 1, insert_manifest_lines(n, text)
\* leaves the manifest equal to lines[0:p] + (lines of text) + lines[p:] with
\* p = min(n-1, N), and a following get_manifest_text(with_line_numbers=True)
\* shows the k inserted lines labelled p+1 .. p+k.
C6_InsertThenRead ==
    (IsCall("insert_manifest_lines") /\ call.before # <<>> /\ call.line_number >= 1) =>
        LET lines == splitlines(call.before)
            p == Min(call.line_number - 1, Len(lines))
            new == splitlines(call.lines)
            shown == split_nl(get_manifest_text(yaml_content, TRUE, None, None).result)
        IN  /\ yaml_content = join(Spliced(lines, p + 1, p, new))
            /\ \A i \in 1..Len(new) :
                 /\ p + i <= Len(shown)
                 /\ shown[p + i] = numbered_line(p + i, new[i])

\* the four tools that take the manifest
FourManifestTools == {"execute_stream_test_read", "validate_manifest",
                      "execute_record_counts_smoke_test",
                      "execute_dynamic_manifest_resolution_test"}

AgentGaveManifest == "manifest" \in DOMAIN call.tool_args /\ call.tool_args["manifest"] # <<>>

\* C9: a call of one of the four manifest tools is forwarded with manifest = the
\* agent's value when that is non-empty and otherwise the session's manifest text
\* at the time of the call; every other argument is forwarded unchanged, and a
\* call of any other tool is forwarded with exactly the agent's arguments.
C9_ManifestInjection ==
    IsCall("mcp") =>
        LET sent == call.forwarded
        IN  /\ sent.name = call.name
            /\ IF call.name \in FourManifestTools
               THEN /\ DOMAIN sent.tool_args = (DOMAIN call.tool_args) \cup {"manifest"}
                    /\ sent.tool_args["manifest"]
                         = IF AgentGaveManifest THEN call.tool_args["manifest"]
                           ELSE yaml_content
                    /\ \A k \in (DOMAIN call.tool_args) \ {"manifest"} :
                         sent.tool_args[k] = call.tool_args[k]
               ELSE sent.tool_args = call.tool_args

\* the manifest a tool call of this turn has edited is injected for an empty argument
C9_Witness ==
    /\ IsCall("mcp")
    /\ call.name = "validate_manifest"
    /\ call.tool_args = [manifest |-> <<>>, config |-> <<"a">>]
    /\ edited
    /\ yaml_content # <<>>
    /\ call.forwarded.tool_args = [manifest |-> yaml_content, config |-> <<"a">>]

\* the number of lines of the manifest a call was made on
TotalLines == Len(splitlines(call.before))

\* the start of the range a read asks for: start_line, or 1 when omitted
EffectiveStart == IF IsNone(call.start_line) THEN 1 ELSE Val(call.start_line)

\* the four cases in which a read is refused
ReadRefused ==
    \/ call.before = <<>>
    \/ ~IsNone(call.start_line)
         /\ (Val(call.start_line) < 1 \/ Val(call.start_line) > TotalLines)
    \/ ~IsNone(call.end_line) /\ Val(call.end_line) < EffectiveStart
    \/ ~IsNone(call.end_line) /\ Val(call.end_line) > TotalLines

\* the lines start..end of the manifest, numbered or not
RequestedText ==
    LET lines == splitlines(call.before)
        last == IF IsNone(call.end_line) THEN Len(lines) ELSE Val(call.end_line)
        picked == SubSeq(lines, EffectiveStart, last)
    IN  IF call.with_line_numbers
        THEN join([i \in 1..Len(picked) |->
                      numbered_line(EffectiveStart + i - 1, picked[i])])
        ELSE join(picked)

EffectiveEnd == IF IsNone(call.end_line) THEN TotalLines ELSE Val(call.end_line)

\* a read whose range satisfies 1 <= s <= e <= N
ReadInRange ==
    /\ IsCall("get_manifest_text")
    /\ call.before # <<>>
    /\ 1 <= EffectiveStart
    /\ EffectiveStart <= EffectiveEnd
    /\ EffectiveEnd <= TotalLines

\* the decimal digits of n at the right of a field of FIELD_WIDTH characters
RightAligned(n) ==
    [i \in 1..FIELD_WIDTH |->
        IF i <= FIELD_WIDTH - Len(nat_str(n)) THEN " "
        ELSE nat_str(n)[i - (FIELD_WIDTH - Len(nat_str(n)))]]

\* C28: for a manifest of N lines and 1 <= s <= e <= N, get_manifest_text
\* returns exactly the e - s + 1 lines s..e in order, an omitted start_line
\* meaning 1 and an omitted end_line meaning N; with line numbers the i-th
\* returned line carries the right-aligned number s + i - 1 before it.
C28_ReadReturnsTheRange ==
    ReadInRange =>
        split_nl(call.result) =
            [i \in 1..(EffectiveEnd - EffectiveStart + 1) |->
                IF call.with_line_numbers
                THEN RightAligned(EffectiveStart + i - 1) \o <<" ", "|", " ">>
                        \o splitlines(call.before)[EffectiveStart + i - 1]
                ELSE splitlines(call.before)[EffectiveStart + i - 1]]

\* a numbered read from line 2 to the end of a manifest of three lines
C28_Witness ==
    /\ ReadInRange
    /\ call.with_line_numbers
    /\ call.start_line = Some(2)
    /\ call.end_line = None
    /\ TotalLines = 3
    /\ Len(split_nl(call.result)) = 2

\* a replace within the range 1 <= s <= e <= N by a text of zero lines
DeleteInRange == ReplaceInRange /\ call.new_lines = <<>>

\* C29: replace_manifest_lines(s, e, "") deletes lines s..e: the manifest
\* becomes lines[0:s-1] + lines[e:] joined, its lines are e - s + 1 fewer, and
\* the confirmation reports e - s + 1 lines replaced with 0 new lines.
C29_EmptyTextDeletes ==
    DeleteInRange =>
        LET lines == splitlines(call.before)
            kept == SubSeq(lines, 1, call.start_line - 1)
                       \o SubSeq(lines, call.end_line + 1, Len(lines))
        IN  /\ yaml_content = join(kept)
            /\ Len(splitlines(yaml_content))
                 = Len(lines) - (call.end_line - call.start_line + 1)
            /\ call.result =
                 <<"Successfully replaced ">>
                    \o int_str(call.end_line - call.start_line + 1)
                    \o <<" line(s) (lines ">> \o int_str(call.start_line) \o <<"-">>
                    \o int_str(call.end_line) \o <<") with ">> \o <<"0">>
                    \o <<" new line(s). The manifest has been updated and changes are visible in the UI.">>

\* an edit the tools refuse: an insert before line 1, or a replace whose range
\* is not within 1 <= start_line <= end_line <= N
EditRejected ==
    \/ IsCall("insert_manifest_lines") /\ call.line_number < 1
    \/ /\ IsCall("replace_manifest_lines")
       /\ \/ call.start_line < 1
          \/ call.start_line > TotalLines
          \/ call.end_line < call.start_line
          \/ call.end_line > TotalLines

\* C17: a rejected manifest edit (insert_manifest_lines with line_number < 1,
\* replace_manifest_lines with start_line outside [1, N], end_line < start_line
\* or end_line > N) returns an "Error:" string and leaves the manifest of the
\* session as it was before the call.
C17_RejectedEditChangesNothing ==
    EditRejected => IsError(call.result) /\ yaml_content = call.before

\* a replace refused only because its end is past the last line, with a
\* replacement text that would have changed the manifest
C17_Witness ==
    /\ IsCall("replace_manifest_lines")
    /\ call.before # <<>>
    /\ call.start_line = 1
    /\ call.end_line = TotalLines + 1
    /\ call.new_lines # <<>>
    /\ IsError(call.result)
    /\ yaml_content = call.before

----------------------------------------------------------------------------
(* Claim about successive edits, checked under SpecCompose *)

RECURSIVE EditsApplied(_, _, _)
EditsApplied(content, eds, i) ==
    IF i > Len(eds) THEN content
    ELSE EditsApplied(apply_edit(content, eds[i]).yaml, eds, i + 1)

\* C8: the tool calls of a turn take effect on the session in the order the agent
\* makes them, each on the text the earlier ones left: after two successive edits
\* the text is the second edit applied to the result of the first, and a read
\* after them returns that text.
C8_EditsCompose ==
    /\ yaml_content = EditsApplied(turn_start, edits, 1)
    /\ (pc = "called" =>
          call.result = manifest_text(EditsApplied(turn_start, edits, 1), TRUE, None, None))

\* two edits that each changed the text, and a read that shows three lines
C8_Witness ==
    /\ pc = "called"
    /\ Len(edits) = 2
    /\ edits[1].tool = "insert_manifest_lines"
    /\ edits[2].tool = "replace_manifest_lines"
    /\ apply_edit(turn_start, edits[1]).yaml # turn_start
    /\ yaml_content # apply_edit(turn_start, edits[1]).yaml
    /\ yaml_content # apply_edit(turn_start, edits[2]).yaml
    /\ Len(split_nl(call.result)) = 3

----------------------------------------------------------------------------
(* The flat task list (task_list.py), kept by the session as JSON text *)

\* TaskStatus: the four values of the enum
TaskStatus == {"not_started", "in_progress", "completed", "blocked"}

\* the fields every task has; description is carried unchanged by every
\* operation and is left out
TaskFields == {"task_type", "id", "task_name", "status", "task_status_detail"}

ConnectorTask(id, task_name) ==
    [cls |-> "ConnectorTask", task_type |-> "connector", id |-> id, task_name |-> task_name,
     status |-> "not_started", task_status_detail |-> None]

StreamTask(id, task_name, stream_name) ==
    [cls |-> "StreamTask", task_type |-> "stream", id |-> id, task_name |-> task_name,
     status |-> "not_started", task_status_detail |-> None, stream_name |-> stream_name]

FinalizationTask(id, task_name) ==
    [cls |-> "FinalizationTask", task_type |-> "finalization", id |-> id, task_name |-> task_name,
     status |-> "not_started", task_status_detail |-> None]

\* the member types of TaskList.tasks, in the order of the annotation
UnionChoices == <<"Task", "ConnectorTask", "StreamTask", "FinalizationTask">>

fields_of(cls) == IF cls = "StreamTask" THEN TaskFields \cup {"stream_name"} ELSE TaskFields

\* the fields of a class that have no default
required_of(cls) ==
    CASE cls = "Task" -> {"task_type", "id", "task_name"}
      [] cls = "StreamTask" -> {"id", "task_name", "stream_name"}
      [] OTHER -> {"id", "task_name"}

\* the value the Literal annotation of a subclass admits
literal_ok(cls, task_type) ==
    CASE cls = "Task" -> TRUE
      [] cls = "ConnectorTask" -> task_type = "connector"
      [] cls = "StreamTask" -> task_type = "stream"
      [] OTHER -> task_type = "finalization"

field_default(cls, k) ==
    CASE k = "status" -> "not_started"
      [] k = "task_status_detail" -> None
      [] k = "task_type" /\ cls = "ConnectorTask" -> "connector"
      [] k = "task_type" /\ cls = "StreamTask" -> "stream"
      [] OTHER -> "finalization"

\* whether a JSON object validates as an instance of cls
validates(cls, obj) ==
    /\ required_of(cls) \subseteq DOMAIN obj
    /\ ("task_type" \in DOMAIN obj => literal_ok(cls, obj["task_type"]))
    /\ ("status" \in DOMAIN obj => obj["status"] \in TaskStatus)

\* the instance of cls a JSON object validates to: keys the class does not
\* declare are ignored, absent fields take their default
validated(cls, obj) ==
    [k \in fields_of(cls) \cup {"cls"} |->
        IF k = "cls" THEN cls
        ELSE IF k \in DOMAIN obj THEN obj[k]
        ELSE field_default(cls, k)]

fields_set_count(cls, obj) == Cardinality(fields_of(cls) \cap DOMAIN obj)

\* a union that keeps the first member that validates
union_prefers_first(new_count, best_count) == FALSE

\* the union keeps a later member only when it sets more fields
union_prefers(new_count, best_count) == new_count > best_count

RECURSIVE smart_union(_, _, _)
smart_union(obj, i, best) ==
    IF i > Len(UnionChoices) THEN best
    ELSE LET c == UnionChoices[i]
         IN  IF /\ validates(c, obj)
                /\ \/ IsNone(best)
                   \/ union_prefers(fields_set_count(c, obj), fields_set_count(Val(best).cls, obj))
             THEN smart_union(obj, i + 1, Some(validated(c, obj)))
             ELSE smart_union(obj, i + 1, best)

\* validation of one element of "tasks": the task, or None when no member validates
load_task(obj) == smart_union(obj, 1, None)

\* serialization of one task: the fields of its own class
dump_task(t) == [k \in DOMAIN t \ {"cls"} |-> t[k]]

model_dump_json(tl) == [tasks |-> [i \in 1..Len(tl.tasks) |-> dump_task(tl.tasks[i])]]

validation_fails(json) == \E i \in 1..Len(json.tasks) : IsNone(load_task(json.tasks[i]))

model_validate_json(json) ==
    [tasks |-> [i \in 1..Len(json.tasks) |-> Val(load_task(json.tasks[i]))]]

\* insertion before the 0-based position p
InsertAt(s, p, x) == SubSeq(s, 1, p) \o <<x>> \o SubSeq(s, p + 1, Len(s))

\* removal of the element at the 1-based index i
RemoveAt(s, i) == SubSeq(s, 1, i - 1) \o SubSeq(s, i + 1, Len(s))

\* the 1-based index of the first task with this id, or 0
first_index(tasks, task_id) ==
    IF \E i \in 1..Len(tasks) : tasks[i].id = task_id
    THEN CHOOSE i \in 1..Len(tasks) :
            /\ tasks[i].id = task_id
            /\ \A j \in 1..(i - 1) : tasks[j].id # task_id
    ELSE 0

\* a lookup that falls back on the first task of the list
get_task_by_id_or_first(tl, task_id) ==
    Some(tl.tasks[Max(1, first_index(tl.tasks, task_id))])

get_task_by_id(tl, task_id) ==
    IF first_index(tl.tasks, task_id) = 0 THEN None
    ELSE Some(tl.tasks[first_index(tl.tasks, task_id)])

add_task(tl, task) == [tasks |-> Append(tl.tasks, task)]

clamp(position, n) == Max(0, Min(position, n))

insert_task(tl, position, task) ==
    [tasks |-> InsertAt(tl.tasks, clamp(position, Len(tl.tasks)), task)]

remove_task(tl, task_id) ==
    IF IsNone(get_task_by_id(tl, task_id))
    THEN [success |-> FALSE, tl |-> tl]
    ELSE [success |-> TRUE, tl |-> [tasks |-> RemoveAt(tl.tasks, first_index(tl.tasks, task_id))]]

count_status(tasks, status) == Cardinality({i \in 1..Len(tasks) : tasks[i].status = status})

\* a summary that counts the tasks whose status is "failed" as the blocked ones
get_summary_failed_key(tasks) ==
    [total |-> Len(tasks),
     not_started |-> count_status(tasks, "not_started"),
     in_progress |-> count_status(tasks, "in_progress"),
     completed |-> count_status(tasks, "completed"),
     blocked |-> count_status(tasks, "failed")]

get_summary(tasks) ==
    [total |-> Len(tasks),
     not_started |-> count_status(tasks, "not_started"),
     in_progress |-> count_status(tasks, "in_progress"),
     completed |-> count_status(tasks, "completed"),
     blocked |-> count_status(tasks, "blocked")]

create_default_connector_task_list ==
    [tasks |-> <<ConnectorTask("collect-info", "n"),
                 ConnectorTask("research-api", "n"),
                 ConnectorTask("first-stream-tasks", "n"),
                 FinalizationTask("readiness-pass-1", "n"),
                 FinalizationTask("readiness-pass-2", "n")>>]

----------------------------------------------------------------------------
(* The task tools of the agent (chat_agent.py): each reads the session's JSON
   text, changes the list and writes the JSON text back *)

NoTaskList == <<ErrorPrefix, "No task list has been initialized yet.">>

\* the message of the except branch of a tool
Raised(what) == <<"Error", what>>

ToolFailed(r) == Len(r) > 0 /\ r[1] \in {ErrorPrefix, "Error"}

Truthy(opt) == ~IsNone(opt) /\ Val(opt) # ""

tool_add(deps_json, task, what) ==
    IF IsNone(deps_json) THEN [result |-> NoTaskList, json |-> deps_json]
    ELSE IF validation_fails(Val(deps_json)) THEN [result |-> Raised(what), json |-> deps_json]
    ELSE [result |-> <<"Successfully added", what, task.id>>,
          json |-> Some(model_dump_json(add_task(model_validate_json(Val(deps_json)), task)))]

tool_insert(deps_json, position, task, what) ==
    IF IsNone(deps_json) THEN [result |-> NoTaskList, json |-> deps_json]
    ELSE IF validation_fails(Val(deps_json)) THEN [result |-> Raised(what), json |-> deps_json]
    ELSE [result |-> <<"Successfully inserted", what, task.id>>,
          json |-> Some(model_dump_json(
                      insert_task(model_validate_json(Val(deps_json)), position, task)))]

add_connector_task(deps_json, task_id, task_name) ==
    tool_add(deps_json, ConnectorTask(task_id, task_name), "connector task")

add_stream_task(deps_json, task_id, task_name, stream_name) ==
    tool_add(deps_json, StreamTask(task_id, task_name, stream_name), "stream task")

add_finalization_task(deps_json, task_id, task_name) ==
    tool_add(deps_json, FinalizationTask(task_id, task_name), "finalization task")

insert_connector_task(deps_json, position, task_id, task_name) ==
    tool_insert(deps_json, position, ConnectorTask(task_id, task_name), "connector task")

insert_stream_task(deps_json, position, task_id, task_name, stream_name) ==
    tool_insert(deps_json, position, StreamTask(task_id, task_name, stream_name), "stream task")

insert_finalization_task(deps_json, position, task_id, task_name) ==
    tool_insert(deps_json, position, FinalizationTask(task_id, task_name), "finalization task")

\* an update that never writes the detail
with_status_only(task, status, task_status_detail) == [task EXCEPT !.status = status]

\* an update that writes the detail whether one is given or not
with_status_and_detail(task, status, task_status_detail) ==
    [task EXCEPT !.status = status, !.task_status_detail = task_status_detail]

\* the task with its status set, and its detail set when one is given
with_status(task, status, task_status_detail) ==
    IF Truthy(task_status_detail)
    THEN [task EXCEPT !.status = status, !.task_status_detail = task_status_detail]
    ELSE [task EXCEPT !.status = status]

\* a conversion that takes every string for a status
any_string_is_status(status) == TRUE

\* whether TaskStatus(status) returns: the string is the value of a member
is_task_status(status) == status \in TaskStatus

update_task_status(deps_json, task_id, status, task_status_detail) ==
    IF IsNone(deps_json) THEN [result |-> NoTaskList, json |-> deps_json]
    ELSE IF validation_fails(Val(deps_json))
    THEN [result |-> Raised("updating task status"), json |-> deps_json]
    ELSE LET tl == model_validate_json(Val(deps_json))
             i == first_index(tl.tasks, task_id)
         IN  IF ~is_task_status(status)
             THEN [result |-> <<ErrorPrefix, "Invalid status", status>>, json |-> deps_json]
             ELSE IF IsNone(get_task_by_id(tl, task_id))
             THEN [result |-> <<ErrorPrefix, "Task not found", task_id>>, json |-> deps_json]
             ELSE [result |-> <<"Successfully updated task", task_id, status>>,
                   json |-> Some(model_dump_json(
                      [tasks |-> [tl.tasks EXCEPT
                                    ![i] = with_status(@, status, task_status_detail)]]))]

remove_task_tool(deps_json, task_id) ==
    IF IsNone(deps_json) THEN [result |-> NoTaskList, json |-> deps_json]
    ELSE IF validation_fails(Val(deps_json))
    THEN [result |-> Raised("removing task"), json |-> deps_json]
    ELSE LET r == remove_task(model_validate_json(Val(deps_json)), task_id)
         IN  IF ~r.success
             THEN [result |-> <<ErrorPrefix, "Task not found", task_id>>, json |-> deps_json]
             ELSE [result |-> <<"Successfully removed task", task_id>>,
                   json |-> Some(model_dump_json(r.tl))]

list_tasks(deps_json) ==
    IF IsNone(deps_json) THEN <<"No task list has been initialized yet.">>
    ELSE IF validation_fails(Val(deps_json)) THEN Raised("listing tasks")
    ELSE LET tl == model_validate_json(Val(deps_json))
         IN  <<"Summary:", get_summary(tl.tasks)>>

----------------------------------------------------------------------------
(* The partitioned task list (models/task_list.py), kept by the chat state *)

\* Task(task_type=..., id=..., task_name=...): a task of the base class
models_Task(task_type, id, task_name) ==
    [cls |-> "Task", task_type |-> task_type, id |-> id, task_name |-> task_name,
     status |-> "not_started", status_detail |-> None]

models_ConnectorTask(id, task_name) ==
    [cls |-> "ConnectorTask", task_type |-> "connector", id |-> id, task_name |-> task_name,
     status |-> "not_started", status_detail |-> None]

models_StreamTask(id, task_name, stream_name) ==
    [cls |-> "StreamTask", task_type |-> "stream", id |-> id, task_name |-> task_name,
     status |-> "not_started", status_detail |-> None, stream_name |-> stream_name]

models_FinalizationTask(id, task_name) ==
    [cls |-> "FinalizationTask", task_type |-> "finalization", id |-> id, task_name |-> task_name,
     status |-> "not_started", status_detail |-> None]

\* TaskList.tasks
models_tasks(tl) == tl.basic_connector_tasks \o tl.stream_tasks \o tl.finalization_tasks

\* whether get_task_by_id raises
models_not_found(tl, task_id) == first_index(models_tasks(tl), task_id) = 0

models_get_task_by_id(tl, task_id) == models_tasks(tl)[first_index(models_tasks(tl), task_id)]

append_task(tl, task) ==
    CASE task.cls = "ConnectorTask" ->
            [tl EXCEPT !.basic_connector_tasks = Append(@, task)]
      [] task.cls = "StreamTask" ->
            [tl EXCEPT !.stream_tasks = Append(@, task)]
      [] task.cls = "FinalizationTask" ->
            [tl EXCEPT !.finalization_tasks = Append(@, task)]
      [] OTHER -> tl

models_insert_task(tl, position, task) ==
    CASE task.cls = "ConnectorTask" ->
            [tl EXCEPT !.basic_connector_tasks = InsertAt(@, clamp(position, Len(@)), task)]
      [] task.cls = "StreamTask" ->
            [tl EXCEPT !.stream_tasks = InsertAt(@, clamp(position, Len(@)), task)]
      [] task.cls = "FinalizationTask" ->
            [tl EXCEPT !.finalization_tasks = InsertAt(@, clamp(position, Len(@)), task)]
      [] OTHER -> tl

\* the tasks of one category with the task of this id given the status and detail
set_status(tasks, task_id, status, status_detail) ==
    [i \in 1..Len(tasks) |->
        IF i = first_index(tasks, task_id)
        THEN [tasks[i] EXCEPT !.status = status, !.status_detail = status_detail]
        ELSE tasks[i]]

models_update_task_status(tl, task_id, status, status_detail) ==
    IF models_not_found(tl, task_id) THEN [raised |-> TRUE, tl |-> tl]
    ELSE LET cls == models_get_task_by_id(tl, task_id).cls
         IN  [raised |-> FALSE,
              tl |-> CASE cls = "ConnectorTask" ->
                            [tl EXCEPT !.basic_connector_tasks =
                                set_status(@, task_id, status, status_detail)]
                       [] cls = "StreamTask" ->
                            [tl EXCEPT !.stream_tasks =
                                set_status(@, task_id, status, status_detail)]
                       [] OTHER ->
                            [tl EXCEPT !.finalization_tasks =
                                set_status(@, task_id, status, status_detail)]]

\* list.remove: the list without its first element equal to x
list_remove(s, x) ==
    IF \E i \in 1..Len(s) : s[i] = x
    THEN RemoveAt(s, CHOOSE i \in 1..Len(s) : s[i] = x /\ \A j \in 1..(i - 1) : s[j] # x)
    ELSE s

models_remove_task(tl, task_id) ==
    IF models_not_found(tl, task_id) THEN [raised |-> TRUE, tl |-> tl]
    ELSE LET task == models_get_task_by_id(tl, task_id)
         IN  [raised |-> FALSE,
              tl |-> CASE task.cls = "ConnectorTask" ->
                            [tl EXCEPT !.basic_connector_tasks = list_remove(@, task)]
                       [] task.cls = "StreamTask" ->
                            [tl EXCEPT !.stream_tasks = list_remove(@, task)]
                       [] task.cls = "FinalizationTask" ->
                            [tl EXCEPT !.finalization_tasks = list_remove(@, task)]
                       [] OTHER -> tl]

models_get_summary(tl) == get_summary(models_tasks(tl))

new_connector_build_task_list ==
    [basic_connector_tasks |-> <<models_ConnectorTask("collect-info", "n"),
                                 models_ConnectorTask("research-api", "n"),
                                 models_ConnectorTask("first-stream-tasks", "n")>>,
     stream_tasks |-> <<>>,
     finalization_tasks |-> <<models_FinalizationTask("readiness-pass-1", "n"),
                              models_FinalizationTask("readiness-pass-2", "n")>>]

----------------------------------------------------------------------------
(* The operations on the task list, one after another *)

NewIds == {"t1", "collect-info"}
StreamNames == {"users"}
Positions == {-1, 1, 9}
KnownIds == {"collect-info", "t1", "missing"}
StatusInputs == TaskStatus \cup {"failed"}
DetailInputs == {None, Some(""), Some("d")}

\* the tasks of the list the program holds, in the order of the list of all tasks
AllTasks ==
    IF impl = "flat"
    THEN IF IsNone(task_list_json) THEN <<>> ELSE Val(task_list_json).tasks
    ELSE IF IsNone(task_list) THEN <<>> ELSE models_tasks(Val(task_list))

stream_name_of(t) == IF "stream_name" \in DOMAIN t THEN Some(t.stream_name) ELSE None

\* the category and stream a task is created with
created(t) == [task_type |-> t.task_type, stream_name |-> stream_name_of(t)]

\* what the task operations never touch
NotTaskVars == <<yaml_content, form, edited, turn_start, edits, impl, TurnVars>>

InitTasks ==
    /\ impl \in {"flat", "partitioned"}
    /\ task_list_json = None
    /\ task_list = None
    /\ origin = <<>>
    /\ nops = 0
    /\ yaml_content = <<>>
    /\ form = EmptyForm
    /\ pc = "idle"
    /\ call = NoCall
    /\ edited = FALSE
    /\ turn_start = <<>>
    /\ edits = <<>>
    /\ NoTurn

\* `not self.task_list_json`, `self.task_list is None`: no list is held
always_needed(held) == TRUE
needs_task_list(held) == IsNone(held)

\* the list the program holds, None when it holds none
HeldTaskList == IF impl = "flat" THEN task_list_json ELSE task_list

\* the state after a call that seeds the list when none is held
SeedFlat(tool, returns) ==
    /\ impl = "flat"
    /\ pc = "idle"
    /\ task_list_json' = IF needs_task_list(task_list_json)
                         THEN Some(model_dump_json(create_default_connector_task_list))
                         ELSE task_list_json
    /\ origin' = IF needs_task_list(task_list_json)
                 THEN [i \in 1..Len(create_default_connector_task_list.tasks) |->
                          created(create_default_connector_task_list.tasks[i])]
                 ELSE origin
    /\ call' = [tool |-> tool, held |-> task_list_json,
                result |-> IF ~returns THEN None
                           ELSE IF needs_task_list(task_list_json)
                                THEN Some(create_default_connector_task_list)
                                ELSE Some(model_validate_json(Val(task_list_json)))]
    /\ pc' = "called"
    /\ UNCHANGED <<task_list, nops>>
    /\ UNCHANGED NotTaskVars

\* ConnectorBuilderState.get_task_list and ProgressState.get_task_list; the
\* first is called by send_message before the session of a turn is built
GetTaskList ==
    /\ impl = "flat"
    /\ SeedFlat("get_task_list", TRUE)

\* ProgressState.ensure_task_list
EnsureTaskList ==
    /\ impl = "flat"
    /\ SeedFlat("ensure_task_list", FALSE)

FlatReady == impl = "flat" /\ pc = "idle" /\ ~IsNone(task_list_json) /\ nops < MaxOps

\* the effect of one task tool on the session, and the record of its call
FlatCall(r, c, o) ==
    /\ task_list_json' = r.json
    /\ call' = c
    /\ origin' = IF ToolFailed(r.result) THEN origin ELSE o
    /\ pc' = "called"
    /\ nops' = nops + 1
    /\ UNCHANGED task_list
    /\ UNCHANGED NotTaskVars

AddCall(tool, task, r) ==
    FlatCall(r, [tool |-> tool, task_id |-> task.id, before |-> AllTasks, result |-> r.result],
             Append(origin, created(task)))

InsertCall(tool, position, task, r) ==
    FlatCall(r, [tool |-> tool, task_id |-> task.id, position |-> position,
                 before |-> AllTasks, result |-> r.result],
             InsertAt(origin, clamp(position, Len(origin)), created(task)))

AddConnectorTask ==
    /\ FlatReady
    /\ \E id \in NewIds :
         AddCall("add_connector_task", ConnectorTask(id, "n"),
                 add_connector_task(task_list_json, id, "n"))

AddStreamTask ==
    /\ FlatReady
    /\ \E id \in NewIds, sn \in StreamNames :
         AddCall("add_stream_task", StreamTask(id, "n", sn),
                 add_stream_task(task_list_json, id, "n", sn))

AddFinalizationTask ==
    /\ FlatReady
    /\ \E id \in NewIds :
         AddCall("add_finalization_task", FinalizationTask(id, "n"),
                 add_finalization_task(task_list_json, id, "n"))

InsertConnectorTask ==
    /\ FlatReady
    /\ \E id \in NewIds, p \in Positions :
         InsertCall("insert_connector_task", p, ConnectorTask(id, "n"),
                    insert_connector_task(task_list_json, p, id, "n"))

InsertStreamTask ==
    /\ FlatReady
    /\ \E id \in NewIds, p \in Positions, sn \in StreamNames :
         InsertCall("insert_stream_task", p, StreamTask(id, "n", sn),
                    insert_stream_task(task_list_json, p, id, "n", sn))

InsertFinalizationTask ==
    /\ FlatReady
    /\ \E id \in NewIds, p \in Positions :
         InsertCall("insert_finalization_task", p, FinalizationTask(id, "n"),
                    insert_finalization_task(task_list_json, p, id, "n"))

UpdateTaskStatus ==
    /\ FlatReady
    /\ \E id \in KnownIds, st \in StatusInputs, d \in DetailInputs :
         LET r == update_task_status(task_list_json, id, st, d)
         IN  FlatCall(r, [tool |-> "update_task_status", task_id |-> id, status |-> st,
                          task_status_detail |-> d, before |-> AllTasks, result |-> r.result],
                      origin)

RemoveTask ==
    /\ FlatReady
    /\ \E id \in KnownIds :
         LET r == remove_task_tool(task_list_json, id)
         IN  FlatCall(r, [tool |-> "remove_task", task_id |-> id, before |-> AllTasks,
                          result |-> r.result],
                      RemoveAt(origin, first_index(AllTasks, id)))

ListTasks ==
    /\ impl = "flat"
    /\ pc = "idle"
    /\ ~IsNone(task_list_json)
    /\ call' = [tool |-> "list_tasks", before |-> AllTasks, result |-> list_tasks(task_list_json)]
    /\ pc' = "called"
    /\ UNCHANGED <<task_list_json, task_list, origin, nops>>
    /\ UNCHANGED NotTaskVars

\* ChatAgentState.run_agent_workflow: the list the session of a turn is given;
\* a chat state without a task list gets the default one
NewConnectorBuildTaskList ==
    /\ impl = "partitioned"
    /\ pc = "idle"
    /\ task_list' = IF needs_task_list(task_list) THEN Some(new_connector_build_task_list)
                    ELSE task_list
    /\ origin' = IF needs_task_list(task_list)
                 THEN [i \in 1..Len(models_tasks(new_connector_build_task_list)) |->
                          created(models_tasks(new_connector_build_task_list)[i])]
                 ELSE origin
    /\ call' = [tool |-> "run_agent_workflow", held |-> task_list,
                result |-> IF needs_task_list(task_list)
                           THEN Some(new_connector_build_task_list) ELSE task_list]
    /\ pc' = "called"
    /\ UNCHANGED <<task_list_json, nops>>
    /\ UNCHANGED NotTaskVars

PartReady == impl = "partitioned" /\ pc = "idle" /\ ~IsNone(task_list) /\ nops < MaxOps

\* the effect of one method of the partitioned list, and the record of its call
PartCall(tl, c, o) ==
    /\ task_list' = Some(tl)
    /\ call' = c
    /\ origin' = o
    /\ pc' = "called"
    /\ nops' = nops + 1
    /\ UNCHANGED task_list_json
    /\ UNCHANGED NotTaskVars

ModelTasks == {models_ConnectorTask(id, "n") : id \in NewIds}
              \cup {models_StreamTask(id, "n", sn) : id \in NewIds, sn \in StreamNames}
              \cup {models_FinalizationTask(id, "n") : id \in NewIds}
              \cup {models_Task("connector", id, "n") : id \in NewIds}

\* the classes append_task, insert_task and remove_task test for
PartitionClasses == {"ConnectorTask", "StreamTask", "FinalizationTask"}

\* the 0-based place in the list of all tasks where the category of a class starts
category_offset(tl, cls) ==
    CASE cls = "ConnectorTask" -> 0
      [] cls = "StreamTask" -> Len(tl.basic_connector_tasks)
      [] OTHER -> Len(tl.basic_connector_tasks) + Len(tl.stream_tasks)

category_len(tl, cls) ==
    CASE cls = "ConnectorTask" -> Len(tl.basic_connector_tasks)
      [] cls = "StreamTask" -> Len(tl.stream_tasks)
      [] OTHER -> Len(tl.finalization_tasks)

AppendTask ==
    /\ PartReady
    /\ \E task \in ModelTasks :
         LET tl == Val(task_list)
         IN  PartCall(append_task(tl, task),
                      [tool |-> "append_task", task_id |-> task.id, task |-> task,
                       before |-> AllTasks, result |-> <<"returned">>],
                      IF task.cls \in PartitionClasses
                      THEN InsertAt(origin,
                                    category_offset(tl, task.cls) + category_len(tl, task.cls),
                                    created(task))
                      ELSE origin)

ModelsInsertTask ==
    /\ PartReady
    /\ \E task \in ModelTasks, p \in Positions :
         LET tl == Val(task_list)
         IN  PartCall(models_insert_task(tl, p, task),
                      [tool |-> "insert_task", task_id |-> task.id, task |-> task,
                       position |-> p, before |-> AllTasks, result |-> <<"returned">>],
                      IF task.cls \in PartitionClasses
                      THEN InsertAt(origin,
                                    category_offset(tl, task.cls)
                                       + clamp(p, category_len(tl, task.cls)),
                                    created(task))
                      ELSE origin)

ModelsUpdateTaskStatus ==
    /\ PartReady
    /\ \E id \in KnownIds, st \in TaskStatus, d \in DetailInputs :
         LET r == models_update_task_status(Val(task_list), id, st, d)
         IN  PartCall(r.tl,
                      [tool |-> "update_task_status", task_id |-> id, status |-> st,
                       task_status_detail |-> d, before |-> AllTasks,
                       result |-> IF r.raised THEN Raised("ValueError") ELSE <<"returned">>],
                      origin)

ModelsRemoveTask ==
    /\ PartReady
    /\ \E id \in KnownIds :
         LET r == models_remove_task(Val(task_list), id)
         IN  PartCall(r.tl,
                      [tool |-> "remove_task", task_id |-> id, before |-> AllTasks,
                       result |-> IF r.raised THEN Raised("ValueError") ELSE <<"returned">>],
                      IF r.raised THEN origin ELSE RemoveAt(origin, first_index(AllTasks, id)))

NextTasks ==
    \/ GetTaskList
    \/ EnsureTaskList
    \/ AddConnectorTask
    \/ AddStreamTask
    \/ AddFinalizationTask
    \/ InsertConnectorTask
    \/ InsertStreamTask
    \/ InsertFinalizationTask
    \/ UpdateTaskStatus
    \/ RemoveTask
    \/ ListTasks
    \/ NewConnectorBuildTaskList
    \/ AppendTask
    \/ ModelsInsertTask
    \/ ModelsUpdateTaskStatus
    \/ ModelsRemoveTask
    \/ ToolReturn

SpecTasks == InitTasks /\ [][NextTasks]_vars

----------------------------------------------------------------------------
(* The task tools of the agent on any session: one with no task list, one
   whose JSON text does not validate, one with the default list *)

\* a JSON text whose only task has no task_name: no member of the union validates
UnparsableJson == [tasks |-> <<[id |-> "t1"]>>]

SessionJsons == {None, Some(UnparsableJson),
                 Some(model_dump_json(create_default_connector_task_list))}

TaskToolNames == {"list_tasks", "add_connector_task", "add_stream_task",
                  "insert_connector_task", "insert_stream_task", "add_finalization_task",
                  "insert_finalization_task", "update_task_status", "remove_task"}

\* the tool of this name applied to the session
apply_task_tool(tool, deps_json, task_id, position, status, detail) ==
    CASE tool = "list_tasks" -> [result |-> list_tasks(deps_json), json |-> deps_json]
      [] tool = "add_connector_task" -> add_connector_task(deps_json, task_id, "n")
      [] tool = "add_stream_task" -> add_stream_task(deps_json, task_id, "n", "users")
      [] tool = "insert_connector_task" ->
            insert_connector_task(deps_json, position, task_id, "n")
      [] tool = "insert_stream_task" ->
            insert_stream_task(deps_json, position, task_id, "n", "users")
      [] tool = "add_finalization_task" -> add_finalization_task(deps_json, task_id, "n")
      [] tool = "insert_finalization_task" ->
            insert_finalization_task(deps_json, position, task_id, "n")
      [] tool = "update_task_status" -> update_task_status(deps_json, task_id, status, detail)
      [] OTHER -> remove_task_tool(deps_json, task_id)

InitTaskTools ==
    /\ impl = "flat"
    /\ task_list_json \in SessionJsons
    /\ task_list = None
    /\ origin = <<>>
    /\ nops = 0
    /\ yaml_content = <<>>
    /\ form = EmptyForm
    /\ pc = "idle"
    /\ call = NoCall
    /\ edited = FALSE
    /\ turn_start = <<>>
    /\ edits = <<>>
    /\ NoTurn

\* the agent calls one task tool
TaskToolCall ==
    /\ pc = "idle"
    /\ nops < MaxOps
    /\ \E tool \in TaskToolNames, id \in KnownIds, p \in Positions,
          st \in StatusInputs, d \in DetailInputs :
         LET r == apply_task_tool(tool, task_list_json, id, p, st, d)
         IN  /\ task_list_json' = r.json
             /\ call' = [tool |-> tool, task_id |-> id, before |-> task_list_json,
                         result |-> r.result]
    /\ pc' = "called"
    /\ nops' = nops + 1
    /\ UNCHANGED <<task_list, origin>>
    /\ UNCHANGED NotTaskVars

NextTaskTools ==
    \/ TaskToolCall
    \/ ToolReturn

SpecTaskTools == InitTaskTools /\ [][NextTaskTools]_vars

----------------------------------------------------------------------------
(* The creation of one task from keyword arguments, by either module *)

TaskTypes == {"connector", "stream", "finalization"}

TaskClasses == {"Task", "ConnectorTask", "StreamTask", "FinalizationTask"}

\* the values a keyword argument is drawn from
KeywordValues(k) ==
    CASE k = "task_type" -> TaskTypes
      [] k = "id" -> {"t1"}
      [] k = "task_name" -> {"n"}
      [] k = "stream_name" -> {"users"}
      [] OTHER -> {"not_started", "failed"}

KeywordNames == {"task_type", "id", "task_name", "stream_name", "status"}

\* the keyword arguments of a call of a constructor
Keywords ==
    UNION {{kw \in [D -> TaskTypes \cup {"t1", "n", "users", "not_started", "failed"}] :
               \A k \in D : kw[k] \in KeywordValues(k)} : D \in SUBSET KeywordNames}

\* models/task_list.py: task_type of a subclass is a TaskTypeEnum with a default
models_validates(cls, obj) ==
    /\ required_of(cls) \subseteq DOMAIN obj
    /\ ("status" \in DOMAIN obj => obj["status"] \in TaskStatus)

models_fields_of(cls) ==
    {"task_type", "id", "task_name", "status", "status_detail"}
       \cup (IF cls = "StreamTask" THEN {"stream_name"} ELSE {})

models_validated(cls, obj) ==
    [k \in models_fields_of(cls) \cup {"cls"} |->
        IF k = "cls" THEN cls
        ELSE IF k \in DOMAIN obj THEN obj[k]
        ELSE IF k = "status_detail" THEN None
        ELSE field_default(cls, k)]

\* cls(**kwargs): the task, or None when pydantic raises ValidationError
create_task(module, cls, kwargs) ==
    IF module = "flat"
    THEN IF validates(cls, kwargs) THEN Some(validated(cls, kwargs)) ELSE None
    ELSE IF models_validates(cls, kwargs) THEN Some(models_validated(cls, kwargs)) ELSE None

InitCreate == InitTasks

CreateTask ==
    /\ pc = "idle"
    /\ nops < MaxOps
    /\ nops' = nops + 1
    /\ \E cls \in TaskClasses, kwargs \in Keywords :
         call' = [tool |-> "create_task", cls |-> cls, kwargs |-> kwargs,
                  result |-> create_task(impl, cls, kwargs)]
    /\ pc' = "called"
    /\ UNCHANGED <<task_list_json, task_list, origin>>
    /\ UNCHANGED NotTaskVars

NextCreate ==
    \/ CreateTask
    \/ ToolReturn

SpecCreate == InitCreate /\ [][NextCreate]_vars

----------------------------------------------------------------------------
(* prepare_mcp_tools: the schemas of the tools of the MCP server, as the
   model is shown them.  A JSON schema is a function from its keys; a tool
   definition is a record of the four fields the function passes on. *)

AutoProvided ==
    "Auto-provided from current YAML editor content. You do not need to provide this parameter."

ToolNames == MANIFEST_TOOLS \cup {"list_connectors"}
ParamNames == {"manifest", "stream_name"}
RequiredLists == UNION {[1..n -> ParamNames] : n \in 0..MaxRequired}
PropertySchemas == {[type |-> "string"], [type |-> "string", description |-> "d"]}
PropertyDicts == UNION {[D -> PropertySchemas] : D \in SUBSET ParamNames}

\* a schema with the keys given: req and props are None when the key is absent
json_schema(req, props) ==
    [k \in {"type"} \cup (IF IsNone(req) THEN {} ELSE {"required"})
                    \cup (IF IsNone(props) THEN {} ELSE {"properties"}) |->
        CASE k = "type" -> "object"
          [] k = "required" -> Val(req)
          [] OTHER -> Val(props)]

Schemas ==
    {json_schema(req, props) :
        req \in {None} \cup {Some(r) : r \in RequiredLists},
        props \in {None} \cup {Some(d) : d \in PropertyDicts}}

DeclaredSchema ==
    json_schema(Some(<<"manifest", "stream_name">>),
                Some([p \in ParamNames |-> [type |-> "string"]]))

ToolDefinition(name, description, parameters_json_schema, metadata) ==
    [name |-> name, description |-> description,
     parameters_json_schema |-> parameters_json_schema, metadata |-> metadata]

\* the lists of definitions a call may be given: the first tool has any of
\* the schemas, the others the declared one
ToolDefLists ==
    {[i \in 1..Len(names) |->
        ToolDefinition(names[i], "d",
                       IF i = 1 THEN schema ELSE DeclaredSchema,
                       [server |-> "connector-builder"])] :
        names \in UNION {[1..n -> ToolNames] : n \in 1..MaxTools},
        schema \in Schemas}

\* [r for r in schema["required"] if r != "manifest"]
drop_manifest(r) == r # "manifest"
without_first(required) == Tail(required)
without_manifest(required) == SelectSeq(required, drop_manifest)

\* {**schema["properties"]["manifest"], "description": ...}
with_description(property, description) ==
    [k \in DOMAIN property \cup {"description"} |->
        IF k = "description" THEN description ELSE property[k]]

\* the schema built for a manifest tool, from a shallow copy of the given one
prepared_schema(parameters_json_schema) ==
    LET schema == parameters_json_schema
        required_done ==
            IF /\ "required" \in DOMAIN schema
               /\ \E i \in 1..Len(schema["required"]) : schema["required"][i] = "manifest"
            THEN [schema EXCEPT !["required"] = without_manifest(@)]
            ELSE schema
    IN  IF /\ "properties" \in DOMAIN required_done
           /\ "manifest" \in DOMAIN required_done["properties"]
        THEN [required_done EXCEPT
                !["properties"] =
                    [@ EXCEPT !["manifest"] = with_description(@, AutoProvided)]]
        ELSE required_done

prepare_mcp_tools(tool_defs) ==
    [i \in 1..Len(tool_defs) |->
        IF tool_defs[i].name \in MANIFEST_TOOLS
        THEN ToolDefinition(tool_defs[i].name, tool_defs[i].description,
                            prepared_schema(tool_defs[i].parameters_json_schema),
                            tool_defs[i].metadata)
        ELSE tool_defs[i]]

InitPrepare == InitTasks

\* One call.  Every assignment of the function is to the copy of the schema,
\* to the dictionary built for its properties or to the list it returns, so
\* the definitions given are after the call what they were before it.
PrepareMcpTools ==
    /\ pc = "idle"
    /\ nops < MaxOps
    /\ nops' = nops + 1
    /\ \E tool_defs \in ToolDefLists :
         call' = [tool |-> "prepare_mcp_tools", given |-> tool_defs,
                  tool_defs |-> tool_defs,
                  result |-> prepare_mcp_tools(tool_defs)]
    /\ pc' = "called"
    /\ UNCHANGED <<task_list_json, task_list, origin>>
    /\ UNCHANGED NotTaskVars

NextPrepare ==
    \/ PrepareMcpTools
    \/ ToolReturn

SpecPrepare == InitPrepare /\ [][NextPrepare]_vars

----------------------------------------------------------------------------
(* Claims about the task list, checked under SpecTasks *)

AddOrInsertTools == {"add_connector_task", "add_stream_task", "add_finalization_task",
                     "insert_connector_task", "insert_stream_task",
                     "insert_finalization_task", "append_task", "insert_task"}

IdPresentBefore == \E i \in 1..Len(call.before) : call.before[i].id = call.task_id

DuplicateAdd == pc = "called" /\ call.tool \in AddOrInsertTools /\ IdPresentBefore

\* C1: an add or insert of a task whose id is the id of a task already in the
\* list fails, and the list afterwards is the list before the call.
C1_DuplicateAddFails ==
    DuplicateAdd => (ToolFailed(call.result) /\ AllTasks = call.before)

\* C2: no two tasks of the list of all tasks have the same id.
C2_UniqueIds ==
    \A i, j \in 1..Len(AllTasks) : AllTasks[i].id = AllTasks[j].id => i = j

\* the category the partitioned list files a task under
FiledUnder(tl, t) ==
    IF \E i \in 1..Len(tl.basic_connector_tasks) : tl.basic_connector_tasks[i] = t
    THEN "connector"
    ELSE IF \E i \in 1..Len(tl.stream_tasks) : tl.stream_tasks[i] = t
    THEN "stream"
    ELSE "finalization"

\* C3: every task in the list has the category and the stream name it was
\* created with, whatever adds, inserts and status updates came after, through
\* every write of the list to JSON and every read back.
C3_CategoryAndStreamKept ==
    /\ Len(origin) = Len(AllTasks)
    /\ \A i \in 1..Len(AllTasks) :
         /\ AllTasks[i].task_type = origin[i].task_type
         /\ stream_name_of(AllTasks[i]) = origin[i].stream_name
         /\ (impl = "partitioned" =>
                FiledUnder(Val(task_list), AllTasks[i]) = origin[i].task_type)

\* a stream task was created through the JSON text, a later status update
\* reached it, and it still names its stream
C3_Witness ==
    /\ impl = "flat"
    /\ pc = "called"
    /\ nops = 2
    /\ call.tool = "update_task_status"
    /\ ~ToolFailed(call.result)
    /\ \E i \in 1..Len(AllTasks) :
         /\ AllTasks[i].id = call.task_id
         /\ AllTasks[i].status = "completed"
         /\ origin[i] = [task_type |-> "stream", stream_name |-> Some("users")]
         /\ stream_name_of(AllTasks[i]) = Some("users")

\* a call of update_task_status or remove_task, on either list
UpdateOrRemove == pc = "called" /\ call.tool \in {"update_task_status", "remove_task"}

\* no task of the list the call was made on has the id of the call
IdMissing == first_index(call.before, call.task_id) = 0

\* the not-found failure: the message of the tool, the ValueError of the method
NotFoundFailure ==
    IF impl = "flat"
    THEN call.result = <<ErrorPrefix, "Task not found", call.task_id>>
    ELSE call.result = Raised("ValueError")

\* the status a call asks for is one of the four of TaskStatus
StatusValid == call.tool = "update_task_status" => call.status \in TaskStatus

\* C19: update_task_status and remove_task called with an id that no task of
\* the list has fail and leave the list as it was; the failure is the not-found
\* one ("Error: Task with ID ... not found" from the tool, ValueError from the
\* TaskList method) whenever the status asked for is a status at all.
C19_MissingIdFails ==
    (UpdateOrRemove /\ IdMissing) =>
        /\ ToolFailed(call.result)
        /\ AllTasks = call.before
        /\ (StatusValid => NotFoundFailure)

\* the tool is asked, after an earlier change of the list, to complete with a
\* detail a task that is not there
C19_Witness ==
    /\ impl = "flat"
    /\ pc = "called"
    /\ call.tool = "update_task_status"
    /\ nops = 2
    /\ call.task_id = "missing"
    /\ call.status = "completed"
    /\ call.task_status_detail = Some("d")
    /\ Len(call.before) # 5
    /\ IdMissing
    /\ NotFoundFailure

\* the detail of a task, under the name either list gives it
Detail(t) == IF "status_detail" \in DOMAIN t THEN t.status_detail ELSE t.task_status_detail

\* a call of update_task_status that found its task
Updated ==
    /\ pc = "called"
    /\ call.tool = "update_task_status"
    /\ ~ToolFailed(call.result)

\* the place in the list of the task a lookup by the id of the call returns
Found == first_index(call.before, call.task_id)

\* every other task, the number of tasks and their order are as before the call
OthersUntouched ==
    /\ Len(AllTasks) = Len(call.before)
    /\ \A j \in 1..Len(AllTasks) : j # Found => AllTasks[j] = call.before[j]
    /\ first_index(AllTasks, call.task_id) = Found

\* C20 as stated: after update_task_status(id, s, d) on a list that has a task
\* with that id, the task looked up by id has status s and status detail d, and
\* every other task, the number of tasks and their order are unchanged.
C20_StatusAndDetailSet ==
    Updated =>
        /\ AllTasks[Found].status = call.status
        /\ Detail(AllTasks[Found]) = call.task_status_detail
        /\ OthersUntouched

\* C20 amended: the task looked up by id has status s; its detail is d when d
\* is a non-empty string; when d is omitted or empty the update_task_status
\* tool leaves the detail the task had, and the TaskList method of
\* models/task_list.py sets it to d all the same; every other task, the number
\* of tasks and their order are unchanged.
C20_DetailSetWhenGiven ==
    Updated =>
        /\ AllTasks[Found].status = call.status
        /\ Detail(AllTasks[Found]) =
              IF impl = "flat" /\ ~Truthy(call.task_status_detail)
              THEN Detail(call.before[Found])
              ELSE call.task_status_detail
        /\ OthersUntouched

\* the tool gave a task a detail, then a status with no detail: the task has
\* the new status and the detail of the first call
C20_Witness ==
    /\ impl = "flat"
    /\ Updated
    /\ nops = 2
    /\ call.task_status_detail = None
    /\ Detail(call.before[Found]) = Some("d")
    /\ call.before[Found].status # call.status
    /\ AllTasks[Found].status = call.status
    /\ Detail(AllTasks[Found]) = Some("d")

\* the tool found its task and was given no detail, or an empty one
UpdatedWithoutDetail ==
    /\ impl = "flat"
    /\ Updated
    /\ ~Truthy(call.task_status_detail)

\* C37: the update_task_status tool called without a detail, or with an empty
\* one, changes only the status of the task: the detail recorded for it before
\* the call, and every other field, stay as they were, and so does every other
\* task.
C37_DetailKeptWithoutDetail ==
    UpdatedWithoutDetail =>
        /\ AllTasks[Found] = [call.before[Found] EXCEPT !.status = call.status]
        /\ Detail(AllTasks[Found]) = Detail(call.before[Found])
        /\ OthersUntouched

\* a task blocked with a detail is completed with the empty detail: it is
\* completed and the detail written when it was blocked is still attached
C37_Witness ==
    /\ UpdatedWithoutDetail
    /\ call.task_status_detail = Some("")
    /\ call.before[Found].status = "blocked"
    /\ Detail(call.before[Found]) = Some("d")
    /\ call.status = "completed"
    /\ AllTasks[Found].status = "completed"
    /\ Detail(AllTasks[Found]) = Some("d")

\* what a task tool returns when it did what it was asked
Confirmation(r) ==
    Len(r) > 0 /\ r[1] \in {"Successfully added", "Successfully inserted",
                            "Successfully updated task", "Successfully removed task",
                            "Summary:"}

\* C18: every task tool, for every input and every session, with no task list,
\* with a JSON text that does not validate or with a list, returns either a
\* confirmation or a message that begins with "Error:" (checked under
\* SpecTaskTools).
C18_ConfirmationOrErrorPrefix ==
    (pc = "called" /\ call.tool \in TaskToolNames) =>
        Confirmation(call.result) \/ IsError(call.result)

\* a call of update_task_status on a list that has a task with the id
UpdateOfPresent ==
    /\ pc = "called"
    /\ call.tool = "update_task_status"
    /\ first_index(call.before, call.task_id) # 0

\* C21: the status of every task is one of not_started, in_progress, completed
\* and blocked; update_task_status accepts every transition between two of
\* them, a status to itself and back from completed or blocked included; a
\* status string outside the four is rejected with an error and the list is
\* left as it was.
C21_AnyTransitionOfTheFour ==
    /\ \A i \in 1..Len(AllTasks) : AllTasks[i].status \in TaskStatus
    /\ (UpdateOfPresent /\ call.status \in TaskStatus) =>
          /\ ~ToolFailed(call.result)
          /\ AllTasks[Found].status = call.status
    /\ (pc = "called" /\ call.tool = "update_task_status" /\ call.status \notin TaskStatus) =>
          /\ IsError(call.result)
          /\ AllTasks = call.before

\* a task that was completed is put back to not_started
C21_Witness ==
    /\ UpdateOfPresent
    /\ nops = 2
    /\ call.before[Found].status = "completed"
    /\ call.status = "not_started"
    /\ AllTasks[Found].status = "not_started"

\* a call of an insert tool, or of TaskList.insert_task, that stored its task
Inserted ==
    /\ pc = "called"
    /\ call.tool \in {"insert_connector_task", "insert_stream_task",
                      "insert_finalization_task", "insert_task"}
    /\ ~ToolFailed(call.result)

\* how many of the first n tasks are of a category
CountOfCategory(tasks, n, category) ==
    Cardinality({j \in 1..n : tasks[j].task_type = category})

\* C22: after an insert of a task at position p the new task is at index
\* max(0, min(p, len)) counted within the tasks of its own category, len being
\* the number of tasks of that category before the call, and the tasks that
\* were there before are all there in the order they had.
C22_InsertWithinCategory ==
    Inserted =>
        \E k \in 1..Len(AllTasks) :
           /\ AllTasks[k].id = call.task_id
           /\ RemoveAt(AllTasks, k) = call.before
           /\ CountOfCategory(AllTasks, k - 1, AllTasks[k].task_type)
                = clamp(call.position,
                        CountOfCategory(call.before, Len(call.before), AllTasks[k].task_type))

\* append_task or insert_task of the partitioned list returned its task
TaskReturned ==
    /\ impl = "partitioned"
    /\ pc = "called"
    /\ call.tool \in {"append_task", "insert_task"}

\* the sequences of the list that hold the task
SequencesHolding(tl, task) ==
    {f \in {"basic_connector_tasks", "stream_tasks", "finalization_tasks"} :
        \E i \in 1..Len(tl[f]) : tl[f][i] = task}

SequenceOfCategory(category) ==
    CASE category = "connector" -> "basic_connector_tasks"
      [] category = "stream" -> "stream_tasks"
      [] OTHER -> "finalization_tasks"

\* every sequence holds tasks of its own category only
SequencesMatchCategories(tl) ==
    /\ \A i \in 1..Len(tl.basic_connector_tasks) :
          tl.basic_connector_tasks[i].task_type = "connector"
    /\ \A i \in 1..Len(tl.stream_tasks) : tl.stream_tasks[i].task_type = "stream"
    /\ \A i \in 1..Len(tl.finalization_tasks) :
          tl.finalization_tasks[i].task_type = "finalization"

\* C39: in the partitioned TaskList, after any sequence of append_task,
\* insert_task, update_task_status and remove_task calls, every task taken by
\* append_task or insert_task is stored in exactly one of the three sequences,
\* the one of its category, each sequence holds tasks of its category only,
\* and the task returned by append_task or insert_task is found by
\* get_task_by_id.
C39_StoredInItsCategory ==
    (impl = "partitioned" /\ ~IsNone(task_list)) =>
        /\ SequencesMatchCategories(Val(task_list))
        /\ TaskReturned =>
              /\ SequencesHolding(Val(task_list), call.task)
                    = {SequenceOfCategory(call.task.task_type)}
              /\ ~models_not_found(Val(task_list), call.task.id)

\* the same, for the tasks of the three classes append_task and insert_task
\* test for
C39_SubclassesStoredInTheirCategory ==
    (impl = "partitioned" /\ ~IsNone(task_list)) =>
        /\ SequencesMatchCategories(Val(task_list))
        /\ (TaskReturned /\ call.task.cls \in PartitionClasses) =>
              /\ SequencesHolding(Val(task_list), call.task)
                    = {SequenceOfCategory(call.task.task_type)}
              /\ ~models_not_found(Val(task_list), call.task.id)

SeedingCalls == {"get_task_list", "ensure_task_list", "run_agent_workflow"}

Seeding == pc = "called" /\ call.tool \in SeedingCalls

DefaultCategories == <<"connector", "connector", "connector", "finalization", "finalization">>

\* C27: the default task list (three not-started connector tasks, two
\* not-started finalization tasks, no stream task) is created only when a list
\* is needed and none is held; once a list is held, no turn start and no call
\* of get_task_list or ensure_task_list replaces or re-seeds it, so the
\* mutations of the tasks made before are still there (checked under SpecTasks).
C27_SeededOnlyWhenAbsent ==
    Seeding =>
        IF IsNone(call.held)
        THEN /\ Len(AllTasks) = Len(DefaultCategories)
             /\ \A i \in 1..Len(AllTasks) :
                   /\ AllTasks[i].task_type = DefaultCategories[i]
                   /\ AllTasks[i].status = "not_started"
        ELSE HeldTaskList = call.held

\* get_task_list is called at the start of a turn, on a list in which the
\* tasks are not the default ones any more
C27_Witness ==
    /\ Seeding
    /\ call.tool = "get_task_list"
    /\ ~IsNone(call.held)
    /\ HeldTaskList = call.held
    /\ \/ Len(AllTasks) # Len(DefaultCategories)
       \/ \E i \in 1..Len(AllTasks) : AllTasks[i].status # "not_started"

\* C25: a task has a stream_name if and only if its category is stream:
\* creating a stream task without a stream_name fails, and creating a connector
\* or finalization task with a stream_name fails (checked under SpecCreate).
C25_StreamNameIffStream ==
    (pc = "called" /\ call.tool = "create_task") =>
        /\ (call.cls = "StreamTask" /\ "stream_name" \notin DOMAIN call.kwargs)
              => IsNone(call.result)
        /\ (call.cls \in {"ConnectorTask", "FinalizationTask"}
               /\ "stream_name" \in DOMAIN call.kwargs)
              => IsNone(call.result)
        /\ ~IsNone(call.result) =>
              ("stream_name" \in DOMAIN Val(call.result)
                  <=> Val(call.result).task_type = "stream")

RECURSIVE OtherThan(_, _)
\* the entries of a list other than x, in their order
OtherThan(seq, x) ==
    IF seq = <<>> THEN <<>>
    ELSE IF Head(seq) = x THEN OtherThan(Tail(seq), x)
         ELSE <<Head(seq)>> \o OtherThan(Tail(seq), x)

Prepared == pc = "called" /\ call.tool = "prepare_mcp_tools"

\* what the definition returned for a manifest tool keeps of the one given
ManifestToolPrepared(given, returned) ==
    LET old == given.parameters_json_schema
        new == returned.parameters_json_schema
    IN  /\ returned.name = given.name
        /\ returned.description = given.description
        /\ returned.metadata = given.metadata
        /\ DOMAIN new = DOMAIN old
        /\ \A k \in DOMAIN old \ {"required", "properties"} : new[k] = old[k]
        /\ "required" \in DOMAIN old =>
              /\ \A i \in 1..Len(new["required"]) : new["required"][i] # "manifest"
              /\ new["required"] = OtherThan(old["required"], "manifest")
        /\ "properties" \in DOMAIN old =>
              /\ DOMAIN new["properties"] = DOMAIN old["properties"]
              /\ \A p \in DOMAIN old["properties"] \ {"manifest"} :
                    new["properties"][p] = old["properties"][p]
              /\ "manifest" \in DOMAIN old["properties"] =>
                    \A k \in DOMAIN old["properties"]["manifest"] \ {"description"} :
                       /\ k \in DOMAIN new["properties"]["manifest"]
                       /\ new["properties"]["manifest"][k] = old["properties"]["manifest"][k]

\* C26: prepare_mcp_tools returns, for each manifest tool, a definition whose
\* required list no longer contains manifest while every other required
\* parameter and every other property is kept, returns every other tool's
\* definition unchanged, and leaves the definitions it was given as they were
\* (checked under SpecPrepare).
C26_ManifestMadeOptional ==
    Prepared =>
        /\ Len(call.result) = Len(call.given)
        /\ \A i \in 1..Len(call.given) :
              IF call.given[i].name \in MANIFEST_TOOLS
              THEN ManifestToolPrepared(call.given[i], call.result[i])
              ELSE call.result[i] = call.given[i]
        /\ call.tool_defs = call.given

\* a manifest tool that requires stream_name and then manifest, followed by
\* another tool that requires manifest
C26_Witness ==
    /\ Prepared
    /\ Len(call.given) = 2
    /\ call.given[1].name = "validate_manifest"
    /\ "required" \in DOMAIN call.given[1].parameters_json_schema
    /\ call.given[1].parameters_json_schema["required"] = <<"stream_name", "manifest">>
    /\ "properties" \in DOMAIN call.given[1].parameters_json_schema
    /\ DOMAIN call.given[1].parameters_json_schema["properties"] = ParamNames
    /\ call.result[1].parameters_json_schema["required"] = <<"stream_name">>
    /\ call.given[2].name = "list_connectors"
    /\ call.result[2].parameters_json_schema["required"] = <<"manifest", "stream_name">>

\* the summary the program computes of the list it holds
Summary ==
    IF impl = "flat"
    THEN get_summary(model_validate_json(Val(task_list_json)).tasks)
    ELSE models_get_summary(Val(task_list))

HasTaskList == IF impl = "flat" THEN ~IsNone(task_list_json) ELSE ~IsNone(task_list)

\* C7: the not_started, in_progress, completed and blocked counts of the summary
\* sum to its total, and its total is the number of tasks in the list of all
\* tasks; list_tasks reports that summary.
C7_SummaryAddsUp ==
    HasTaskList =>
        /\ Summary.not_started + Summary.in_progress + Summary.completed + Summary.blocked
              = Summary.total
        /\ Summary.total = Len(AllTasks)
        /\ (pc = "called" /\ call.tool = "list_tasks" => call.result = <<"Summary:", Summary>>)

\* list_tasks on a list that grew or shrank and holds a blocked task beside
\* tasks that are not started
C7_Witness ==
    /\ pc = "called"
    /\ call.tool = "list_tasks"
    /\ nops = 2
    /\ Len(AllTasks) # 5
    /\ Summary.blocked = 1
    /\ Summary.not_started = Len(AllTasks) - 1

----------------------------------------------------------------------------
(* One turn of ChatAgentState.run_agent_workflow, a background task: the
   handlers of BuilderState, UIState and ChatAgentState run between its steps *)

UiTexts == {<<>>, <<"a">>}
UiValues == {"", "x"}
KeyInputs == {"", "k"}

\* the cumulative texts a run of the agent may stream
Streams == {<<>>, <<"a">>, <<"a", "ab">>}

\* the fields the merge-back copies from the session: those of
\* run_agent_workflow, and of ConnectorBuilderState.send_message
MergedFields ==
    IF impl = "flat" THEN {"yaml_content"}
    ELSE {"yaml_content", "connector_name", "source_api_name",
          "functional_requirements", "documentation_urls"}

\* the setters the session is given: none by run_agent_workflow, two by
\* ConnectorBuilderState.send_message
session_setters ==
    [f \in FormFields |-> impl = "flat" /\ f \in {"source_api_name", "connector_name"}]

\* a tool that writes the field of the session beside calling the setter
deps_written(deps, field_name, value) == [deps EXCEPT ![field_name] = value]

\* the fields of the session after a tool called a setter: the tools assign
\* nothing to ctx.deps
deps_after_setter(deps, field_name, value) == deps

\* the setter of a durable field, called by a tool
setter_called(durable, setters, field_name, value) ==
    IF setters[field_name] THEN [durable EXCEPT ![field_name] = value] ELSE durable

set_api_name(setters, api_name) ==
    IF setters["source_api_name"]
    THEN <<"Successfully set the Source API Name", api_name>>
    ELSE <<ErrorPrefix, "Unable to update Source API Name (callback not available)">>

set_connector_name(setters, connector_name) ==
    IF setters["connector_name"]
    THEN <<"Successfully set the Connector Name", connector_name>>
    ELSE <<ErrorPrefix, "Unable to update Connector Name (callback not available)">>

\* json.dumps of the form fields of the session
get_form_fields(deps) == [f \in FormFields |-> deps[f]]

\* the parts get_connector_metadata joins: the fields of the session that
\* are not empty
get_connector_metadata(deps) == {<<f, deps[f]>> : f \in {g \in FormFields : deps[g] # ""}}

update_form_field(setters, field_name, value) ==
    IF ~setters[field_name]
    THEN <<ErrorPrefix, "Setter is not available", field_name>>
    ELSE <<"Successfully updated", field_name>>

\* the value of a field in the session
session_value(f) == IF f = "yaml_content" THEN yaml_content ELSE form[f]

\* the merge-back: a field whose session value differs from the durable value
\* takes the session value
merge_back(durable) ==
    [f \in DurableFields |->
        IF f \in MergedFields /\ session_value(f) # durable[f]
        THEN session_value(f)
        ELSE durable[f]]

\* UIState.get_effective_api_key: the UI input takes precedence over the
\* environment; an absent variable reads as ""
effective_key(input, environ) ==
    IF input # "" THEN input
    ELSE IF IsNone(environ) THEN "" ELSE Val(environ)

get_effective_api_key == effective_key(openai_api_key_input, environ_key)

\* a finally block that puts a value back but never takes the variable away
restored_never_popped(original, effective, current) ==
    IF ~IsNone(original) THEN original ELSE current

\* the finally block: OPENAI_API_KEY after the turn
restored_key(original, effective, current) ==
    IF ~IsNone(original) THEN original
    ELSE IF effective # "" THEN None
    ELSE current

UserMessage == [role |-> "user", content |-> "Continue"]

AssistantMessage(content) == [role |-> "assistant", content |-> content]

\* the message of the except block
SyntheticError == [role |-> "assistant", content |-> "Sorry, I encountered an error"]

\* what a turn never touches
FlatVars == <<task_list_json, edited, turn_start, edits, impl, origin, sessions>>

\* what the steps of a turn leave alone, the start of the agent apart
NotTurnVars == <<FlatVars, AgentVars>>

SessionVars == <<yaml_content, form, deps_task_list>>

ToolVars == <<pc, call, nops, tool_changed>>

InitTurn ==
    /\ NoTurn
    /\ yaml_content = <<>>
    /\ form = EmptyForm
    /\ task_list_json = None
    /\ pc = "idle"
    /\ call = NoCall
    /\ edited = FALSE
    /\ turn_start = <<>>
    /\ edits = <<>>
    /\ impl = "partitioned"
    /\ task_list = None
    /\ origin = <<>>
    /\ nops = 0

\* the positions of a turn between the snapshot and the merge-back
MidTurn == turn \in {"started", "running", "output", "finishing"}

\* a handler of BuilderState writes one durable field
UiWrite(f, v) ==
    /\ ui_edits < MaxUiEdits
    /\ builder' = [builder EXCEPT ![f] = v]
    /\ ui_changed' = IF MidTurn THEN ui_changed \cup {f} ELSE ui_changed
    /\ ui_edits' = ui_edits + 1
    /\ UNCHANGED <<SessionVars, ToolVars, task_list, turn, turns, raised>>
    /\ UNCHANGED <<ChatVars, KeyVars, StreamVars, NotTurnVars>>

SetSourceApiName == \E v \in UiValues : UiWrite("source_api_name", v)

SetConnectorName == \E v \in UiValues : UiWrite("connector_name", v)

SetDocumentationUrls == \E v \in UiValues : UiWrite("documentation_urls", v)

SetFunctionalRequirements == \E v \in UiValues : UiWrite("functional_requirements", v)

SetTestList == \E v \in UiValues : UiWrite("test_list", v)

UpdateYamlContent == \E content \in UiTexts : UiWrite("yaml_content", content)

\* UIState.set_openai_api_key_input
SetOpenaiApiKeyInput ==
    /\ \E value \in KeyInputs :
         /\ value # openai_api_key_input
         /\ openai_api_key_input' = value
    /\ UNCHANGED <<environ_key, effective_api_key, original_api_key, env_before>>
    /\ UNCHANGED <<SessionVars, ToolVars, builder, task_list, ui_changed, ui_edits>>
    /\ UNCHANGED <<turn, turns, raised, ChatVars, StreamVars, NotTurnVars>>

\* ChatAgentState.pause_agent
PauseAgent ==
    /\ ~agent_paused
    /\ agent_paused' = TRUE
    /\ UNCHANGED <<chat_messages, current_streaming_message, agent_running>>
    /\ UNCHANGED <<SessionVars, ToolVars, builder, task_list, ui_changed, ui_edits>>
    /\ UNCHANGED <<turn, turns, raised, KeyVars, StreamVars, NotTurnVars>>

\* ChatAgentState.send_message: the user's message is appended and the
\* background task is started
SendMessage ==
    /\ turn = "idle"
    /\ turns < MaxTurns
    /\ chat_messages' = Append(chat_messages, UserMessage)
    /\ agent_running' = TRUE
    /\ agent_paused' = FALSE
    /\ current_streaming_message' = ""
    /\ turn' = "sent"
    /\ turns' = turns + 1
    /\ UNCHANGED <<SessionVars, ToolVars, builder, task_list, ui_changed, ui_edits>>
    /\ UNCHANGED <<raised, KeyVars, StreamVars, NotTurnVars>>

\* run_agent_workflow up to the call of the agent: the session is built from
\* the durable state, the keys are read and the environment is overridden
RunAgentWorkflow ==
    /\ turn = "sent"
    /\ turn' = "started"
    /\ yaml_content' = builder["yaml_content"]
    /\ form' = [f \in FormFields |-> builder[f]]
    /\ deps_task_list' = IF needs_task_list(task_list) THEN Some(new_connector_build_task_list)
                         ELSE task_list
    /\ effective_api_key' = get_effective_api_key
    /\ original_api_key' = environ_key
    /\ env_before' = environ_key
    /\ environ_key' = IF get_effective_api_key # "" THEN Some(get_effective_api_key)
                      ELSE environ_key
    /\ \E s \in Streams : stream' = s
    /\ consumed' = 0
    /\ pause_seen' = None
    /\ raised' = FALSE
    /\ ui_changed' = {}
    /\ tool_changed' = {}
    /\ nops' = 0
    /\ UNCHANGED <<builder, task_list, ui_edits, pc, call, turns, openai_api_key_input>>
    /\ UNCHANGED <<ChatVars, NotTurnVars>>

\* run_agent_workflow raises before its try statement, in get_state: the
\* background task ends with the exception, and neither the except block nor
\* the finally block is run
SetupFails ==
    /\ turn = "sent"
    /\ turn' = "idle"
    /\ raised' = TRUE
    /\ UNCHANGED <<SessionVars, ToolVars, builder, task_list, ui_changed, ui_edits>>
    /\ UNCHANGED <<turns, ChatVars, KeyVars, StreamVars, NotTurnVars>>

\* a step of the turn that changes only its position
Advance(from, to) ==
    /\ turn = from
    /\ turn' = to
    /\ UNCHANGED <<SessionVars, ToolVars, builder, task_list, ui_changed, ui_edits>>
    /\ UNCHANGED <<turns, raised, ChatVars, KeyVars, StreamVars, NotTurnVars>>

\* the outcomes of __aexit__ of the agent: it returns, or it raises and the
\* exception is printed
CloseOutcomes == {"closed", "close_raised"}

\* the cached agent was created under another key than the one asked for
key_always_changed == ~IsNone(cached_agent)
key_changed == ~IsNone(cached_agent) /\ cached_api_key # Some(effective_api_key)

\* await self._cached_agent.__aexit__(None, None, None)
aexit_skipped(pool, cached, outcome) == pool
aexit(pool, cached, outcome) == [pool EXCEPT ![Val(cached)].status = outcome]

\* create_chat_agent(): a new agent, not started; api_key is the key it is
\* cached under, and replaced is the state, when it is created, of the agent
\* that was cached when the call began
create_chat_agent(pool, cached) ==
    [status |-> "created",
     api_key |-> effective_api_key,
     replaced |-> IF IsNone(cached) THEN None ELSE Some(pool[Val(cached)].status)]

\* _ensure_agent_started up to the start of the agent: the cached agent is
\* closed and dropped if the key changed, and an agent is created if none is
\* cached
ensure_agent(closing) ==
    LET after_close == IF key_changed THEN aexit(agents, cached_agent, closing) ELSE agents
        kept == IF key_changed THEN None ELSE cached_agent
        create == IsNone(kept)
        pool == IF create
                THEN Append(after_close, create_chat_agent(after_close, cached_agent))
                ELSE after_close
    IN  [agents |-> pool,
         cached_agent |-> IF create THEN Some(Len(pool)) ELSE kept,
         cached_api_key |-> IF create THEN Some(effective_api_key) ELSE cached_api_key,
         agent_started |-> IF create \/ key_changed THEN FALSE ELSE agent_started]

\* _ensure_agent_started returns: the cached agent is started, entered by this
\* call unless it was started already
EnsureAgentStarted ==
    /\ turn = "started"
    /\ turn' = "running"
    /\ \E closing \in CloseOutcomes :
         LET e == ensure_agent(closing)
         IN  /\ agents' = IF e.agent_started THEN e.agents
                          ELSE [e.agents EXCEPT ![Val(e.cached_agent)].status = "started"]
             /\ cached_agent' = e.cached_agent
             /\ cached_api_key' = e.cached_api_key
             /\ agent_started' = TRUE
    /\ restored' = FALSE
    /\ UNCHANGED <<SessionVars, ToolVars, builder, task_list, ui_changed, ui_edits>>
    /\ UNCHANGED <<turns, raised, ChatVars, KeyVars, StreamVars, FlatVars>>

\* the except block: the error is reported in the chat and the buffer cleared
ExceptBlock(messages) ==
    /\ chat_messages' = Append(messages, SyntheticError)
    /\ current_streaming_message' = ""
    /\ raised' = TRUE
    /\ turn' = "failed"
    /\ pc' = "idle"
    /\ call' = NoCall
    /\ UNCHANGED <<agent_running, agent_paused, nops, tool_changed>>
    /\ UNCHANGED <<SessionVars, builder, task_list, ui_changed, ui_edits>>
    /\ UNCHANGED <<turns, KeyVars, StreamVars, FlatVars>>

\* a handler of the failure that leaves the agent in the cache
start_failed_keeping_agent(e) ==
    [e EXCEPT !.agent_started = FALSE]

\* the handler of a failure of __aenter__, before it raises again
start_failed(e) ==
    [e EXCEPT !.cached_agent = None, !.agent_started = FALSE]

\* _ensure_agent_started raises: __aenter__ of the agent failed, the cache is
\* emptied and the exception reaches the except block of the turn
AgentStartFails ==
    /\ turn = "started"
    /\ \E closing \in CloseOutcomes :
         LET e == ensure_agent(closing)
             f == start_failed(e)
         IN  /\ ~e.agent_started
             /\ agents' = [e.agents EXCEPT ![Val(e.cached_agent)].status = "start_failed"]
             /\ cached_agent' = f.cached_agent
             /\ cached_api_key' = f.cached_api_key
             /\ agent_started' = f.agent_started
    /\ restored' = FALSE
    /\ ExceptBlock(chat_messages)

\* the agent edits the manifest of the session
TurnInsertManifestLines ==
    /\ turn = "running"
    /\ pc = "idle"
    /\ nops < MaxOps
    /\ LET r == insert_manifest_lines(deps_yaml_content, 1, <<"a">>)
       IN  /\ Len(r.yaml) <= MaxTurnLen
           /\ yaml_content' = r.yaml
           /\ call' = [tool |-> "insert_manifest_lines", line_number |-> 1, lines |-> <<"a">>,
                       before |-> yaml_content, result |-> r.result]
           /\ tool_changed' = IF IsError(r.result) THEN tool_changed
                              ELSE tool_changed \cup {"yaml_content"}
    /\ pc' = "called"
    /\ nops' = nops + 1
    /\ UNCHANGED <<form, deps_task_list, builder, task_list, ui_changed, ui_edits>>
    /\ UNCHANGED <<turn, turns, raised, ChatVars, KeyVars, StreamVars, NotTurnVars>>

\* what a tool that calls a setter does to the session and the durable state
SetterStep(c, field_name, value) ==
    /\ call' = c
    /\ form' = deps_after_setter(form, field_name, value)
    /\ builder' = setter_called(builder, session_setters, field_name, value)
    /\ pc' = "called"
    /\ nops' = nops + 1
    /\ UNCHANGED <<yaml_content, deps_task_list, tool_changed, task_list, ui_changed, ui_edits>>
    /\ UNCHANGED <<turn, turns, raised, ChatVars, KeyVars, StreamVars, NotTurnVars>>

\* the agent asks for a form field to be set
TurnUpdateFormField ==
    /\ turn = "running"
    /\ pc = "idle"
    /\ nops < MaxOps
    /\ \E f \in {"connector_name", "test_list"} :
         SetterStep([tool |-> "update_form_field", field_name |-> f, value |-> "x",
                     result |-> update_form_field(session_setters, f, "x")],
                    f, "x")

TurnSetApiName ==
    /\ turn = "running"
    /\ pc = "idle"
    /\ nops < MaxOps
    /\ \E v \in {"x", "y"} :
         SetterStep([tool |-> "set_api_name", field_name |-> "source_api_name",
                     value |-> v, result |-> set_api_name(session_setters, v)],
                    "source_api_name", v)

TurnSetConnectorName ==
    /\ turn = "running"
    /\ pc = "idle"
    /\ nops < MaxOps
    /\ SetterStep([tool |-> "set_connector_name", field_name |-> "connector_name",
                   value |-> "x", result |-> set_connector_name(session_setters, "x")],
                  "connector_name", "x")

\* the agent reads the form fields of the session
TurnGetFormFields ==
    /\ turn = "running"
    /\ pc = "idle"
    /\ nops < MaxOps
    /\ \E tool \in {"get_form_fields", "get_connector_metadata"} :
         call' = [tool |-> tool,
                  result |-> IF tool = "get_form_fields" THEN get_form_fields(form)
                             ELSE get_connector_metadata(form)]
    /\ pc' = "called"
    /\ nops' = nops + 1
    /\ UNCHANGED <<SessionVars, tool_changed, builder, task_list, ui_changed, ui_edits>>
    /\ UNCHANGED <<turn, turns, raised, ChatVars, KeyVars, StreamVars, NotTurnVars>>

TurnToolReturn ==
    /\ turn = "running"
    /\ pc = "called"
    /\ pc' = "idle"
    /\ call' = NoCall
    /\ UNCHANGED <<SessionVars, nops, tool_changed, builder, task_list, ui_changed, ui_edits>>
    /\ UNCHANGED <<turn, turns, raised, ChatVars, KeyVars, StreamVars, NotTurnVars>>

\* one round of the streaming loop: the next text is taken from the stream;
\* under the lock the pause flag is read, and the text is published unless
\* the flag is set
StreamToken ==
    /\ turn = "running"
    /\ pc = "idle"
    /\ consumed < Len(stream)
    /\ consumed' = consumed + 1
    /\ IF agent_paused
       THEN /\ turn' = "output"
            /\ pause_seen' = Some(consumed + 1)
            /\ UNCHANGED current_streaming_message
       ELSE /\ current_streaming_message' = stream[consumed + 1]
            /\ UNCHANGED <<turn, pause_seen>>
    /\ UNCHANGED <<chat_messages, agent_running, agent_paused, stream>>
    /\ UNCHANGED <<SessionVars, ToolVars, builder, task_list, ui_changed, ui_edits>>
    /\ UNCHANGED <<turns, raised, KeyVars, NotTurnVars>>

\* the stream has no more text: the loop ends
StreamEnds ==
    /\ pc = "idle"
    /\ consumed = Len(stream)
    /\ Advance("running", "output")

\* the run of the agent raises: the model, a tool of the external server
StreamFails ==
    /\ turn = "running"
    /\ ExceptBlock(chat_messages)
    /\ UNCHANGED AgentVars

\* response.get_output() reads the stream to its end and returns the final
\* text; the assignment of it to current_streaming_message is made outside
\* the lock: it takes effect, or it raises and the handler beside it prints
\* the exception
GetOutput ==
    /\ turn = "output"
    /\ turn' = "finishing"
    /\ consumed' = Len(stream)
    /\ \E assigned \in BOOLEAN :
         current_streaming_message' =
            IF assigned /\ stream # <<>> THEN stream[Len(stream)]
            ELSE current_streaming_message
    /\ UNCHANGED <<chat_messages, agent_running, agent_paused, stream, pause_seen>>
    /\ UNCHANGED <<SessionVars, ToolVars, builder, task_list, ui_changed, ui_edits>>
    /\ UNCHANGED <<turns, raised, KeyVars, NotTurnVars>>

\* response.get_output() raises: the exception is printed and the turn goes on
GetOutputFails ==
    /\ turn = "output"
    /\ turn' = "finishing"
    /\ raised' = TRUE
    /\ UNCHANGED <<SessionVars, ToolVars, builder, task_list, ui_changed, ui_edits>>
    /\ UNCHANGED <<turns, ChatVars, KeyVars, StreamVars, NotTurnVars>>

\* normal completion: the assistant message is appended, the buffer cleared
\* and the session merged back into the durable state
MergeBack ==
    /\ turn = "finishing"
    /\ turn' = "merged"
    /\ chat_messages' = Append(chat_messages, AssistantMessage(current_streaming_message))
    /\ current_streaming_message' = ""
    /\ builder' = merge_back(builder)
    /\ task_list' = IF deps_task_list # task_list THEN deps_task_list ELSE task_list
    /\ UNCHANGED <<agent_running, agent_paused>>
    /\ UNCHANGED <<SessionVars, ToolVars, ui_changed, ui_edits>>
    /\ UNCHANGED <<turns, raised, KeyVars, StreamVars, NotTurnVars>>

\* get_state raises in the merge-back, after the assistant message
MergeFails ==
    /\ turn = "finishing"
    /\ ExceptBlock(Append(chat_messages, AssistantMessage(current_streaming_message)))
    /\ UNCHANGED AgentVars

\* the finally block: the environment is restored and the turn is over
EndTurn ==
    /\ turn \in {"merged", "failed"}
    /\ turn' = "idle"
    /\ environ_key' = restored_key(original_api_key, effective_api_key, environ_key)
    /\ agent_running' = FALSE
    /\ yaml_content' = <<>>
    /\ form' = EmptyForm
    /\ deps_task_list' = None
    /\ ui_changed' = {}
    /\ tool_changed' = {}
    /\ nops' = 0
    /\ stream' = <<>>
    /\ consumed' = 0
    /\ pause_seen' = None
    /\ UNCHANGED <<chat_messages, current_streaming_message, agent_paused>>
    /\ UNCHANGED <<openai_api_key_input, effective_api_key, original_api_key, env_before>>
    /\ UNCHANGED <<builder, task_list, ui_edits, pc, call, turns, raised, NotTurnVars>>

\* the steps of a turn that completes
Workflow ==
    \/ SendMessage
    \/ RunAgentWorkflow
    \/ EnsureAgentStarted
    \/ TurnInsertManifestLines
    \/ TurnUpdateFormField
    \/ TurnToolReturn
    \/ StreamToken
    \/ StreamEnds
    \/ GetOutput
    \/ MergeBack
    \/ EndTurn

NextTurn ==
    \/ SetSourceApiName
    \/ SetConnectorName
    \/ SetDocumentationUrls
    \/ SetFunctionalRequirements
    \/ SetTestList
    \/ UpdateYamlContent
    \/ Workflow

SpecTurn == InitTurn /\ [][NextTurn]_vars

----------------------------------------------------------------------------
(* The turns of ConnectorBuilderState.send_message: one event handler, which
   holds the state from the message to the end of the turn, and gives the
   session the setters of two form fields.  chat_loading is agent_running
   here, and no task tool is called: the JSON of the session is the JSON of
   the state throughout. *)

InitSend ==
    /\ NoTurn
    /\ yaml_content = <<>>
    /\ form = EmptyForm
    /\ task_list_json = None
    /\ pc = "idle"
    /\ call = NoCall
    /\ edited = FALSE
    /\ turn_start = <<>>
    /\ edits = <<>>
    /\ impl = "flat"
    /\ task_list = None
    /\ origin = <<>>
    /\ nops = 0

\* send_message up to the call of _ensure_agent_started: the message is
\* appended, the task list seeded, the session built from the state, the keys
\* read and the environment overridden
SendMessageFlat ==
    /\ impl = "flat"
    /\ turn = "idle"
    /\ turns < MaxTurns
    /\ turns' = turns + 1
    /\ turn' = "started"
    /\ chat_messages' = Append(chat_messages, UserMessage)
    /\ agent_running' = TRUE
    /\ current_streaming_message' = ""
    /\ task_list_json' = IF needs_task_list(task_list_json)
                         THEN Some(model_dump_json(create_default_connector_task_list))
                         ELSE task_list_json
    /\ origin' = IF needs_task_list(task_list_json)
                 THEN [i \in 1..Len(create_default_connector_task_list.tasks) |->
                          created(create_default_connector_task_list.tasks[i])]
                 ELSE origin
    /\ yaml_content' = builder["yaml_content"]
    /\ form' = [f \in FormFields |-> builder[f]]
    /\ deps_task_list' = None
    /\ effective_api_key' = get_effective_api_key
    /\ original_api_key' = environ_key
    /\ env_before' = environ_key
    /\ environ_key' = IF get_effective_api_key # "" THEN Some(get_effective_api_key)
                      ELSE environ_key
    /\ \E s \in Streams : stream' = s
    /\ consumed' = 0
    /\ pause_seen' = None
    /\ raised' = FALSE
    /\ ui_changed' = {}
    /\ tool_changed' = {}
    /\ nops' = 0
    /\ UNCHANGED <<builder, task_list, ui_edits, pc, call, openai_api_key_input, agent_paused>>
    /\ UNCHANGED <<edited, turn_start, edits, impl, AgentVars, sessions>>

NextSend ==
    \/ SendMessageFlat
    \/ EnsureAgentStarted
    \/ TurnInsertManifestLines
    \/ TurnUpdateFormField
    \/ TurnSetApiName
    \/ TurnSetConnectorName
    \/ TurnGetFormFields
    \/ TurnToolReturn
    \/ StreamToken
    \/ StreamEnds
    \/ GetOutput
    \/ MergeBack
    \/ EndTurn

SpecSend == InitSend /\ [][NextSend]_vars

----------------------------------------------------------------------------
(* Turns that may fail, be paused, and run under any API key *)

EnvKeys == {None, Some(""), Some("o")}

InitRun ==
    /\ builder = DefaultBuilder
    /\ ChatAtRest
    /\ environ_key \in EnvKeys
    /\ env_before = environ_key
    /\ openai_api_key_input \in KeyInputs
    /\ stream = <<>>
    /\ yaml_content = <<>>
    /\ form = EmptyForm
    /\ task_list_json = None
    /\ pc = "idle"
    /\ call = NoCall
    /\ edited = FALSE
    /\ turn_start = <<>>
    /\ edits = <<>>
    /\ impl = "partitioned"
    /\ task_list = None
    /\ origin = <<>>
    /\ nops = 0

\* the fields of ChatAgentState, as the dictionary super().__getstate__ gives
ChatStateNames == {"chat_messages", "current_streaming_message", "agent_running",
                   "agent_paused", "task_list", "_cached_agent", "_cached_api_key",
                   "_agent_started"}

AgentCacheNames == {"_cached_agent", "_cached_api_key", "_agent_started"}

chat_state ==
    [k \in ChatStateNames |->
        CASE k = "chat_messages" -> chat_messages
          [] k = "current_streaming_message" -> current_streaming_message
          [] k = "agent_running" -> agent_running
          [] k = "agent_paused" -> agent_paused
          [] k = "task_list" -> task_list
          [] k = "_cached_agent" -> cached_agent
          [] k = "_cached_api_key" -> cached_api_key
          [] OTHER -> agent_started]

\* ChatAgentState.__getstate__: the backend variables are taken out of the
\* dictionary that is serialized
getstate(state) ==
    [k \in DOMAIN state \ (AgentCacheNames \cup {"_backend_vars"}) |-> state[k]]

\* a __setstate__ that keeps the cache of the object that was serialized
setstate_sharing(state) ==
    [k \in DOMAIN state \cup AgentCacheNames |->
        IF k \in AgentCacheNames THEN chat_state[k] ELSE state[k]]

\* ChatAgentState.__setstate__: the cache attributes are set anew
setstate(state) ==
    [k \in DOMAIN state \cup AgentCacheNames |->
        CASE k = "_cached_agent" -> None
          [] k = "_cached_api_key" -> None
          [] k = "_agent_started" -> FALSE
          [] OTHER -> state[k]]

\* The chat state is serialized and deserialized between two turns.  The
\* agent the object held is not closed: it is left as it was.
Reload ==
    /\ turn = "idle"
    /\ LET state == setstate(getstate(chat_state))
       IN  /\ chat_messages' = state["chat_messages"]
           /\ current_streaming_message' = state["current_streaming_message"]
           /\ agent_running' = state["agent_running"]
           /\ agent_paused' = state["agent_paused"]
           /\ task_list' = state["task_list"]
           /\ cached_agent' = state["_cached_agent"]
           /\ cached_api_key' = state["_cached_api_key"]
           /\ agent_started' = state["_agent_started"]
    /\ restored' = TRUE
    /\ UNCHANGED <<agents, builder, ui_changed, ui_edits, turn, turns, raised>>
    /\ UNCHANGED <<SessionVars, ToolVars, KeyVars, StreamVars, FlatVars>>

NextRun ==
    \/ Workflow
    \/ Reload
    \/ SetOpenaiApiKeyInput
    \/ PauseAgent
    \/ SetupFails
    \/ AgentStartFails
    \/ StreamFails
    \/ GetOutputFails
    \/ MergeFails

SpecRun == InitRun /\ [][NextRun]_vars

\* The background task of a turn is an asyncio task: once started it is run
\* to its end.  Every await of it returns or raises: the stream of the agent
\* is finite, a tool call returns, the lock of the state is granted.
TaskStep ==
    \/ RunAgentWorkflow
    \/ SetupFails
    \/ EnsureAgentStarted
    \/ AgentStartFails
    \/ TurnToolReturn
    \/ StreamToken
    \/ StreamEnds
    \/ StreamFails
    \/ GetOutput
    \/ GetOutputFails
    \/ MergeBack
    \/ MergeFails
    \/ EndTurn

SpecRunFair == SpecRun /\ WF_vars(TaskStep)

----------------------------------------------------------------------------
(* The turns of several sessions in one process.  Each session has its own
   state and its own key input; os.environ is the one of the process.  A turn
   awaits the agent between its try and its finally, and the turns of other
   sessions run meanwhile. *)

Sessions == {"s1", "s2"}

SessionKeyInputs == {"", "k", "j"}

NoTurnRunning == \A s \in Sessions : sessions[s].turn = "idle"

InitKeys ==
    /\ builder = DefaultBuilder
    /\ chat_messages = <<Welcome>>
    /\ current_streaming_message = ""
    /\ agent_running = FALSE
    /\ agent_paused = FALSE
    /\ turn = "idle"
    /\ turns = 0
    /\ deps_task_list = None
    /\ effective_api_key = ""
    /\ original_api_key = None
    /\ consumed = 0
    /\ pause_seen = None
    /\ raised = FALSE
    /\ ui_changed = {}
    /\ tool_changed = {}
    /\ ui_edits = 0
    /\ agents = <<>>
    /\ cached_agent = None
    /\ cached_api_key = None
    /\ agent_started = FALSE
    /\ restored = FALSE
    /\ openai_api_key_input = ""
    /\ stream = <<>>
    /\ yaml_content = <<>>
    /\ form = EmptyForm
    /\ task_list_json = None
    /\ pc = "idle"
    /\ call = NoCall
    /\ edited = FALSE
    /\ turn_start = <<>>
    /\ edits = <<>>
    /\ impl = "partitioned"
    /\ task_list = None
    /\ origin = <<>>
    /\ nops = 0
    /\ environ_key \in EnvKeys
    /\ env_before = environ_key
    /\ \E inputs \in [Sessions -> SessionKeyInputs] :
         sessions = [s \in Sessions |->
                       [turn |-> "idle", input |-> inputs[s], turns |-> 0,
                        effective_api_key |-> "", original_api_key |-> None]]

NotKeysVars == <<yaml_content, form, task_list_json, pc, call, edited, turn_start, edits,
                 impl, task_list, origin, nops, builder, turn, ui_changed, tool_changed,
                 ui_edits, deps_task_list, turns, raised, ChatVars, StreamVars, AgentVars,
                 openai_api_key_input, effective_api_key, original_api_key>>

\* the turn of a session up to its await of the agent: the keys are read and
\* the environment of the process is overridden
SessionTurnStarts ==
    /\ \E s \in Sessions :
         /\ sessions[s].turn = "idle"
         /\ sessions[s].turns < MaxTurns
         /\ LET effective == effective_key(sessions[s].input, environ_key)
            IN  /\ sessions' = [sessions EXCEPT ![s] =
                                  [turn |-> "running", input |-> @.input,
                                   turns |-> @.turns + 1,
                                   effective_api_key |-> effective,
                                   original_api_key |-> environ_key]]
                /\ environ_key' = IF effective # "" THEN Some(effective) ELSE environ_key
    /\ env_before' = IF NoTurnRunning THEN environ_key ELSE env_before
    /\ UNCHANGED NotKeysVars

\* the finally block of the turn of a session
SessionTurnEnds ==
    /\ \E s \in Sessions :
         /\ sessions[s].turn = "running"
         /\ sessions' = [sessions EXCEPT ![s].turn = "idle"]
         /\ environ_key' = restored_key(sessions[s].original_api_key,
                                        sessions[s].effective_api_key, environ_key)
    /\ UNCHANGED env_before
    /\ UNCHANGED NotKeysVars

NextKeys ==
    \/ SessionTurnStarts
    \/ SessionTurnEnds

SpecKeys == InitKeys /\ [][NextKeys]_vars

\* C35: when the turns of two sessions with different effective credentials
\* overlap in the process, then after both have ended OPENAI_API_KEY of the
\* process is what it was before either started, for every interleaving.
C35_KeyRestoredAfterOverlap ==
    (/\ NoTurnRunning
     /\ \A s \in Sessions : sessions[s].turns >= 1
     /\ sessions["s1"].effective_api_key # sessions["s2"].effective_api_key)
        => environ_key = env_before

----------------------------------------------------------------------------
(* The end of every turn, checked under SpecRunFair *)

SendStep == turn = "idle" /\ turn' = "sent"

\* C36: send_message sets agent_running and clears the pause flag and the
\* streaming buffer before the background task starts, and every turn that
\* starts comes to its end with agent_running false, whether it completes, is
\* paused or fails at any step.
C36_EveryTurnEnds ==
    /\ [][SendStep => (/\ agent_running'
                       /\ ~agent_paused'
                       /\ current_streaming_message' = "")]_vars
    /\ (turn = "sent") ~> (turn = "idle" /\ ~agent_running)

----------------------------------------------------------------------------
(* Claims about the merge-back, checked under SpecTurn *)

MergeStep == turn = "finishing" /\ turn' = "merged"

\* C10: a durable field the UI changed while the turn was running, and that no
\* tool call of the turn wrote in the session, holds after the merge-back the
\* value the UI gave it; the snapshot the session took before the turn does not
\* overwrite it.
C10_UiEditSurvivesMerge ==
    [][MergeStep =>
         \A f \in DurableFields :
            (f \in ui_changed /\ f \notin tool_changed) => builder'[f] = builder[f]]_vars

\* C11: when a turn completes normally, each of the manifest text, the task
\* list and the metadata fields (connector name, source API name, documentation
\* URLs, functional requirements, test list) whose session value differs from
\* the durable value has the session value as its durable value afterwards.
C11_MergeCopiesEveryDifference ==
    [][MergeStep =>
         /\ \A f \in DurableFields :
               session_value(f) # builder[f] => builder'[f] = session_value(f)
         /\ (deps_task_list # task_list => task_list' = deps_task_list)]_vars

----------------------------------------------------------------------------
(* Claims about failing and paused turns and the API key, checked under SpecRun *)

\* the turn has reached its end: after the merge-back or the except block
TurnOver == turn \in {"merged", "failed"}

LastMessage == chat_messages[Len(chat_messages)]

\* C12: if an exception is raised during a turn's history conversion, agent
\* start, streaming, tool application or merge-back, the turn ends with the
\* synthetic assistant message reporting the error appended to the chat history
\* and the streaming buffer empty.
C12_ExceptionReported ==
    (TurnOver /\ raised) =>
        /\ LastMessage = SyntheticError
        /\ current_streaming_message = ""

\* C13: if a turn fails with an exception after a tool call of the turn has
\* changed the manifest text, the user-visible manifest text after the turn is
\* the changed text and not the text from before the turn.
C13_PartialProgressKept ==
    (turn = "failed" /\ "yaml_content" \in tool_changed) =>
        builder["yaml_content"] = yaml_content

\* C14: after every turn, whether it succeeds or fails, OPENAI_API_KEY in the
\* environment of the process is what it was before the turn started: the same
\* value if it was set, absent if it was absent, for every value before the
\* turn and every effective key.
C14_KeyRestored ==
    turn = "idle" => environ_key = env_before

\* a turn that ran under the key typed in the UI, in a process that had no
\* key, has failed and is over
C14_Witness ==
    /\ turn = "idle"
    /\ turns >= 1
    /\ raised
    /\ effective_api_key = "k"
    /\ IsNone(original_api_key)
    /\ IsNone(environ_key)

\* the texts of the stream that come after the one taken at the checkpoint
\* that saw the pause flag
LaterTexts == {stream[i] : i \in (Val(pause_seen) + 1)..Len(stream)}

\* C15: once the streaming loop has seen the pause flag at a token checkpoint,
\* nothing further is taken from the agent's stream, and no text the agent
\* produced after that checkpoint is published to the current streaming
\* message or put in the assistant message appended for the turn.
C15_PauseStopsTheStream ==
    ~IsNone(pause_seen) =>
        /\ consumed = Val(pause_seen)
        /\ current_streaming_message \notin LaterTexts
        /\ (turn = "merged" => LastMessage.content \notin LaterTexts)

----------------------------------------------------------------------------
(* Claims about the cached agent, checked under SpecRun *)

CacheEmpty == IsNone(cached_agent) /\ ~agent_started

\* the turn failed before any output was appended: the message before the
\* report of the error is the user's
FailedBeforeOutput ==
    /\ turn = "failed"
    /\ chat_messages[Len(chat_messages) - 1].role = "user"

\* C23: when a turn fails because of an error raised while the agent is
\* started or while its run is streaming, the cached agent is invalidated by
\* the end of that turn: no agent is cached and the started flag is false.
C23_FailureInvalidatesAgent ==
    [][(FailedBeforeOutput /\ turn' = "idle") => CacheEmpty']_vars

\* the same, for the failures of the start of the agent alone
StartFailureInvalidatesAgent ==
    [][(turn = "started" /\ turn' = "failed") => CacheEmpty']_vars

EnsureReturns == turn = "started" /\ turn' = "running"

EnsureRaises == turn = "started" /\ turn' = "failed"

\* C38: in every state reached through _ensure_agent_started, serialization
\* and deserialization the started flag is true only if an agent is cached;
\* and when starting the agent fails no agent is cached, the started flag is
\* false and the failure is raised again, to the except block of the turn.
C38_StartedOnlyWithAgent ==
    /\ [](agent_started => ~IsNone(cached_agent))
    /\ [][EnsureRaises => (/\ IsNone(cached_agent')
                           /\ ~agent_started'
                           /\ raised'
                           /\ chat_messages' = Append(chat_messages, SyntheticError))]_vars

\* the agent of the second turn, created after a change of key or a
\* deserialization, failed to start: nothing is cached
C38_Witness ==
    /\ turn = "failed"
    /\ turns = 2
    /\ Len(agents) = 2
    /\ agents[1].status = "started"
    /\ agents[2].status = "start_failed"
    /\ IsNone(cached_agent)
    /\ ~agent_started
    /\ raised

\* a new agent was created, cached and started by the step
FreshAgentStarted ==
    /\ Len(agents') = Len(agents) + 1
    /\ cached_agent' = Some(Len(agents'))
    /\ agents'[Len(agents')].status = "started"
    /\ cached_api_key' = Some(effective_api_key)
    /\ agent_started'

\* C24: the cached agent is not in the dictionary that is serialized; after
\* a serialization and deserialization of the chat state the cached agent is
\* absent, the cached credential is absent and the started
\* flag is false, and the next turn creates and starts a new agent.
C24_CacheNotSerialized ==
    [][/\ DOMAIN getstate(chat_state) \cap AgentCacheNames = {}
       /\ restored' => (CacheEmpty' /\ IsNone(cached_api_key'))
       /\ (restored /\ EnsureReturns) => FreshAgentStarted]_vars

\* an agent was started, the state was reloaded, and the next turn started a
\* second agent beside the first
C24_Witness ==
    /\ turn = "running"
    /\ ~restored
    /\ Len(agents) = 2
    /\ agents[1].status = "started"
    /\ agents[2].status = "started"
    /\ IsNone(agents[2].replaced)
    /\ cached_agent = Some(2)

\* C30: when _ensure_agent_started is called with a credential other than
\* the one the cached agent was created with, the old agent is closed before
\* the new one is created, and on normal return the cached agent is the new
\* one, the cached credential is the requested one and the started flag is
\* true; also when closing the old agent raises.
C30_ClosedBeforeReplaced ==
    [][(EnsureReturns /\ key_changed) =>
          /\ FreshAgentStarted
          /\ agents'[Val(cached_agent)].status \in CloseOutcomes
          /\ agents'[Len(agents')].replaced = Some(agents'[Val(cached_agent)].status)]_vars

\* the close of the old agent raised, and the agent that replaced it is
\* cached and started
C30_Witness ==
    /\ turn = "running"
    /\ Len(agents) = 2
    /\ agents[1].status = "close_raised"
    /\ agents[2].status = "started"
    /\ agents[2].replaced = Some("close_raised")
    /\ cached_agent = Some(2)
    /\ cached_api_key = Some(effective_api_key)
    /\ agent_started

\* every agent created so far was created for the key of this turn and is
\* started: no start has failed and no key has changed
OneCredentialSoFar ==
    /\ agents # <<>>
    /\ \A i \in 1..Len(agents) :
          agents[i].status = "started" /\ agents[i].api_key = effective_api_key

\* the call left the agents and the cache as they were
AgentReused ==
    /\ agents' = agents
    /\ cached_agent' = cached_agent
    /\ ~IsNone(cached_agent)
    /\ agents[Val(cached_agent)].status = "started"

\* C31 as stated: across turns run with the same credential and without a
\* start failure one agent is created and opened once, and every later call
\* of _ensure_agent_started creates, opens and closes nothing.
C31_OneAgentPerCredential ==
    [][(EnsureReturns /\ OneCredentialSoFar) => (AgentReused /\ Len(agents) = 1)]_vars

\* C31: the same, for the calls made on a chat state that was not serialized
\* and deserialized since the call before: the cached agent is reused.
C31_AgentReusedUnlessReloaded ==
    [][(EnsureReturns /\ OneCredentialSoFar /\ ~restored) => AgentReused]_vars

\* the second turn runs on the agent the first one created
C31_Witness ==
    /\ turn = "running"
    /\ turns = 2
    /\ ~restored
    /\ Len(agents) = 1
    /\ agents[1].status = "started"
    /\ cached_agent = Some(1)
    /\ agent_started

----------------------------------------------------------------------------
(* The empty manifest, checked under SpecManifest *)

LineTools == {"insert_manifest_lines", "replace_manifest_lines"}

\* C33: insert_manifest_lines and replace_manifest_lines applied to an empty
\* manifest return an error and leave it empty, so once the manifest of the
\* session is empty no sequence of line tools makes it non-empty.
C33_EmptyManifestStaysEmpty ==
    [][yaml_content = <<>> =>
          /\ yaml_content' = <<>>
          /\ (pc' = "called" /\ call'.tool \in LineTools) => IsError(call'.result)]_vars

\* a replace has deleted every line, and the insert made after it is refused
C33_Witness ==
    /\ pc = "called"
    /\ call.tool = "insert_manifest_lines"
    /\ call.line_number = 1
    /\ call.lines # <<>>
    /\ call.before = <<>>
    /\ edited
    /\ IsError(call.result)
    /\ yaml_content = <<>>

----------------------------------------------------------------------------
(* Claims about the turns of send_message, checked under SpecSend *)

\* a step of the turn itself, other than the merge-back
StepBeforeMerge == MidTurn /\ ~MergeStep /\ ui_edits' = ui_edits

\* C32: during a turn the durable manifest text, the task list and each
\* metadata field are written only at the end-of-turn merge, and so at most
\* once, however many tool calls the agent makes; only the current streaming
\* message is written before.
C32_DurableWrittenOnlyAtMerge ==
    [][StepBeforeMerge => (builder' = builder /\ task_list' = task_list)]_vars

SetterTools == {"update_form_field", "set_api_name", "set_connector_name"}

\* a tool of the turn has read the form fields of the session
FormRead == pc = "called" /\ call.tool \in {"get_form_fields", "get_connector_metadata"}

====
